---- MODULE Spec2Model ----
(***************************************************************************)
(* Model of the viewer's bounded-concurrency task queue                    *)
(* (src/web/concurrency_queue.js), of the document/page grouping model of  *)
(* the thumbnail viewer (src/web/pdf_thumbnail_viewer.js) and of the       *)
(* thumbnail render state machine (src/web/pdf_thumbnail_view.js).         *)
(***************************************************************************)
EXTENDS Integers, Sequences, FiniteSets, TLC

(***************************************************************************)
(* Bounds of the model.                                                    *)
(***************************************************************************)
MaxTasks == 3
MaxConcurrency == 2
MaxRuns == 2
MaxDocs == 3
MaxOps == 3
MaxViews == 2
MaxDraws == 2
MaxBatch == 5
MaxAttempts == 2
MaxDrops == 1
MaxLateTasks == 2

VARIABLES
  \* ConcurrencyQueue fields (concurrency_queue.js:5-11)
  concurrency, queue, activeCount, results, currentIndex,
  \* the tasks handed to addTask, in submission order, and the promises
  \* handed out by run()
  tasks, runs,
  \* history: the task ids in the order their then/catch callbacks ran
  recordedOrder

qvars == <<concurrency, queue, activeCount, results, currentIndex, tasks, runs,
           recordedOrder>>

VARIABLES
  \* PDFThumbnailViewer fields (pdf_thumbnail_viewer.js:602-611, 802-806)
  documentsData, previousDocumentsData, thumbnails,
  \* the children of each document's .thumbnails-container, by container id
  containers,
  \* the ids handed out so far by #generateUniqueId
  nextDocId,
  \* history: the number of user edits so far, and the last one with the
  \* documentsData it started from
  ops, lastOp

dvars == <<documentsData, previousDocumentsData, thumbnails, containers,
           nextDocId, ops, lastOp>>

VARIABLES
  \* PDFThumbnailView fields, per view (pdf_thumbnail_view.js:62, 75-77, 312)
  renderingState, pdfPage, renderTask, resume, image,
  \* the draw() calls made so far: the promise each returned and the
  \* render task it created
  draws

tvars == <<renderingState, pdfPage, renderTask, resume, image, draws>>

VARIABLES
  \* the thumbnail scheduler: the scrolled window, this.scroll.down, the
  \* rendering queue's highestPriorityPage, the page loads that
  \* #ensurePdfPageLoaded is waiting for, and what the passes did
  visible, scrollDown, highestPriorityPage, loading, passes, lastPass,
  failedLoad

svars == <<visible, scrollDown, highestPriorityPage, loading, passes, lastPass,
           failedLoad>>

VARIABLES
  \* PDFThumbnailViewer.documentStates[docId].state (pdf_thumbnail_viewer.js:
  \* 616-623), and the progressMap and totalDocs of the batch that
  \* extractDataFromDocuments started (app.js:1352-1356)
  documentStates, progressMap, totalDocs,
  \* the level last handed to this.progress (by updateOverallProgress or by
  \* a handler's progress callback), and loadingBar.percent
  overall, percent

xvars == <<documentStates, progressMap, totalDocs, overall, percent>>
xprogress == <<progressMap, totalDocs, overall, percent>>

VARIABLES
  \* documentStates[docId].progress, and whether documentStates[docId].result
  \* and .json are populated (pdf_thumbnail_viewer.js:616-623)
  documentProgress, documentResult,
  \* the processDocument calls the retry and extract buttons made
  attempts

pvars == <<documentProgress, documentResult, attempts>>

VARIABLES
  \* page.rotation of the page each thumbnail stands for (documentsData),
  \* thumbnail.rotation of each view (pdf_thumbnail_view.js:63), and the
  \* viewer's _pagesRotation (pdf_thumbnail_viewer.js:785)
  pageRotation, thumbRotation, pagesRotation

rvars == <<pageRotation, thumbRotation, pagesRotation>>

vars == <<qvars, dvars, tvars, svars, xvars, pvars, rvars>>

\* What the operations of one component leave alone.
notQueue == <<dvars, tvars, svars, xvars, pvars, rvars>>
notDocs == <<qvars, tvars, svars, xvars, pvars, rvars>>
notView == <<qvars, dvars, svars, xvars, pvars, rvars>>
notScheduler == <<qvars, dvars, xvars, pvars, rvars>>
notExtraction == <<dvars, tvars, svars, rvars>>
notRotation == <<qvars, dvars, xvars, pvars>>

(***************************************************************************)
(* ConcurrencyQueue                                                        *)
(***************************************************************************)

\* An array slot nothing was written to.
Empty == [kind |-> "empty", task |-> 0]

\* What the promise of task t fulfils with / the message it rejects with.
ValueEntry(t) == [kind |-> "value", task |-> t]
ErrorEntry(t) == [kind |-> "error", task |-> t]

\* this.results.length: one past the highest index written.
ResultsLength(res) ==
  LET used == {i \in DOMAIN res : res[i] # Empty}
  IN  IF used = {} THEN 0 ELSE (CHOOSE i \in used : \A j \in used : j <= i) + 1

NewTask == [st |-> "queued", outcome |-> "none", taskIndex |-> -1, run |-> 0]

\* constructor(concurrency = 2)
DefaultConcurrency == 2

InitQueue ==
  /\ concurrency \in 1..MaxConcurrency
  /\ queue = <<>>
  /\ activeCount = 0
  /\ results = [i \in 0..(MaxTasks - 1) |-> Empty]
  /\ currentIndex = 0
  /\ tasks = <<>>
  /\ runs = <<>>
  /\ recordedOrder = <<>>

\* "this.queue.push(task)"
PushFront(q, t) == <<t>> \o q
Push(q, t) == Append(q, t)

\* addTask(task): this.queue.push(task)
AddTask ==
  /\ Len(tasks) < MaxTasks
  /\ tasks' = Append(tasks, NewTask)
  /\ queue' = Push(queue, Len(tasks) + 1)
  /\ UNCHANGED <<concurrency, activeCount, results, currentIndex, runs,
                 recordedOrder>>
  /\ UNCHANGED notQueue

\* "if (this.queue.length === 0 && this.activeCount === 0)"
DrainedIgnoringActive(q, a) == Len(q) = 0
Drained(q, a) == Len(q) = 0 /\ a = 0

\* "while (this.activeCount < this.concurrency && this.queue.length > 0)"
CanStartWhenIdle(q, a) == a = 0 /\ Len(q) > 0
CanStartOffByOne(q, a) == a <= concurrency /\ Len(q) > 0
CanStart(q, a) == a < concurrency /\ Len(q) > 0

\* "const taskIndex = this.currentIndex++" : the index the callbacks capture.
TaskIndexByActive(ci, a) == a
TaskIndex(ci, a) == ci

\* The while loop of runNext: shift, take the index, count the task active
\* and call it.  r is the run() call whose closure this runNext belongs to.
RECURSIVE FillSlots(_, _, _, _, _)
FillSlots(q, a, ci, ts, r) ==
  IF CanStart(q, a)
  THEN FillSlots(Tail(q), a + 1, ci + 1,
                 [ts EXCEPT ![Head(q)] =
                    [st |-> "running", outcome |-> "none",
                     taskIndex |-> TaskIndex(ci, a), run |-> r]],
                 r)
  ELSE [queue |-> q, activeCount |-> a, currentIndex |-> ci, tasks |-> ts]

\* runNext() of the run() call r, entered with activeCount = a, tasks = ts
\* and the run() promises rs.
RunNext(r, a, rs, ts) ==
  IF Drained(queue, a)
  THEN /\ runs' = [rs EXCEPT ![r].resolveCalls = @ + 1]
       /\ activeCount' = a
       /\ tasks' = ts
       /\ UNCHANGED <<queue, currentIndex>>
  ELSE LET f == FillSlots(queue, a, currentIndex, ts, r)
       IN  /\ queue' = f.queue
           /\ activeCount' = f.activeCount
           /\ currentIndex' = f.currentIndex
           /\ tasks' = f.tasks
           /\ runs' = rs

\* run(): new Promise(resolve => { ...; runNext(); })
Run ==
  /\ Len(runs) < MaxRuns
  /\ RunNext(Len(runs) + 1, activeCount,
             Append(runs, [resolveCalls |-> 0, addedAtCall |-> Len(tasks)]),
             tasks)
  /\ UNCHANGED <<concurrency, results, recordedOrder>>
  /\ UNCHANGED notQueue

\* The promise returned by task() settles: fulfilled (ok) or rejected.
Settle(t, ok) ==
  /\ tasks[t].st = "running"
  /\ tasks' = [tasks EXCEPT ![t].st = "settled",
                            ![t].outcome = IF ok THEN "ok" ELSE "fail"]
  /\ UNCHANGED <<concurrency, queue, activeCount, results, currentIndex, runs,
                 recordedOrder>>
  /\ UNCHANGED notQueue

\* ".then((result) => { this.results[taskIndex] = result; })"
ThenHandlerAppend(res, idx, t) == [res EXCEPT ![ResultsLength(res)] = ValueEntry(t)]
ThenHandler(res, idx, t) == [res EXCEPT ![idx] = ValueEntry(t)]

\* ".catch((error) => { this.results[taskIndex] = { error: ... }; })"
CatchHandlerSwallow(res, idx, t) == res
CatchHandler(res, idx, t) == [res EXCEPT ![idx] = ErrorEntry(t)]

\* The then / catch callback of task t runs.
Record(t) ==
  /\ tasks[t].st = "settled"
  /\ results' = IF tasks[t].outcome = "ok"
                THEN ThenHandler(results, tasks[t].taskIndex, t)
                ELSE CatchHandler(results, tasks[t].taskIndex, t)
  /\ tasks' = [tasks EXCEPT ![t].st = "recorded"]
  /\ recordedOrder' = Append(recordedOrder, t)
  /\ UNCHANGED <<concurrency, queue, activeCount, currentIndex, runs>>
  /\ UNCHANGED notQueue

\* "this.activeCount--" in the finally callback, which runs whether the task
\* was fulfilled or rejected.
ReleaseSlotOnSuccessOnly(a, outcome) == IF outcome = "ok" THEN a - 1 ELSE a
ReleaseSlot(a, outcome) == a - 1

\* ".finally(() => { this.activeCount--; runNext(); })"
Finally(t) ==
  /\ tasks[t].st = "recorded"
  /\ RunNext(tasks[t].run, ReleaseSlot(activeCount, tasks[t].outcome), runs,
             [tasks EXCEPT ![t].st = "finished"])
  /\ UNCHANGED <<concurrency, results, recordedOrder>>
  /\ UNCHANGED notQueue

(***************************************************************************)
(* Document / page grouping model of PDFThumbnailViewer                    *)
(***************************************************************************)

\* The page counts of the documents of the classification responses tried.
InitialLayouts == {<<3, 2>>, <<2, 2>>, <<1, 2>>, <<2>>, <<1, 1, 1>>}

\* JavaScript's undefined as an element of a pages array.
Undefined == [id |-> <<-1, -1>>, pageNumber |-> 0]

\* `doc-${docIndex}-page-${pageIndex}`
PageId(docIndex, pageIndex) == <<docIndex, pageIndex>>

RECURSIVE SumTo(_, _)
SumTo(layout, n) == IF n = 0 THEN 0 ELSE layout[n] + SumTo(layout, n - 1)

\* initializeDocuments(response.result): doc ids doc-0, doc-1, ..., page ids
\* doc-i-page-j; setDocument has mapped the page numbers to the flattened
\* order of the extracted PDF.
InitializeDocuments(layout) ==
  [d \in 1..Len(layout) |->
     [id |-> d - 1,
      pages |-> [j \in 1..layout[d] |->
                   [id |-> PageId(d - 1, j - 1),
                    pageNumber |-> SumTo(layout, d - 1) + j]]]]

RECURSIVE Flatten(_)
Flatten(docs) ==
  IF docs = <<>> THEN <<>> ELSE Head(docs).pages \o Flatten(Tail(docs))

\* #renderDocumentContainers: one PDFThumbnailView per page, in container
\* order, each appended (inside its anchor) to its document's container.
RenderThumbnails(docs) ==
  LET flat == Flatten(docs) IN [i \in 1..Len(flat) |-> [id |-> flat[i].id]]

RenderContainers(docs) ==
  [c \in {docs[d].id : d \in 1..Len(docs)} |->
     LET d == CHOOSE e \in 1..Len(docs) : docs[e].id = c
     IN  [j \in 1..Len(docs[d].pages) |->
            [id |-> docs[d].pages[j].id, hasDiv |-> TRUE]]]

NoOp == [op |-> "none", from |-> -1, to |-> -1, oldIndex |-> -1,
         newIndex |-> -1, item |-> <<-1, -1>>, before |-> <<>>]

\* The viewer right after its constructor: no document set.
InitViewer ==
  /\ documentsData = <<>>
  /\ previousDocumentsData = <<>>
  /\ thumbnails = <<>>
  /\ containers = <<>>
  /\ nextDocId = 0
  /\ ops = 0
  /\ lastOp = NoOp

\* setDocumentsData(response) for a classification response.
InitDocuments ==
  \E layout \in InitialLayouts :
    LET docs == InitializeDocuments(layout)
    IN  /\ documentsData = docs
        /\ previousDocumentsData = docs
        /\ thumbnails = RenderThumbnails(docs)
        /\ containers = RenderContainers(docs)
        /\ nextDocId = Len(layout)
        /\ ops = 0
        /\ lastOp = NoOp

\* Array.prototype.splice(start, 1) and splice(start, 0, x), start 0-based:
\* a start past the end is clamped to the length.
SpliceRemoveNothing(s, start) == s
SpliceRemove(s, start) ==
  IF start < Len(s)
  THEN SubSeq(s, 1, start) \o SubSeq(s, start + 2, Len(s))
  ELSE s

SpliceInsertAtEnd(s, start, x) == Append(s, x)
SpliceInsert(s, start, x) ==
  LET at == IF start < Len(s) THEN start ELSE Len(s)
  IN  SubSeq(s, 1, at) \o <<x>> \o SubSeq(s, at + 1, Len(s))

\* "const [movedPage] = fromDoc.pages.splice(oldIndex, 1)"
Removed(s, start) == IF start < Len(s) THEN s[start + 1] ELSE Undefined

\* documentsData.findIndex(doc => doc.id === docId), 1-based; 0 for -1.
DocIndex(docs, docId) ==
  IF \E d \in 1..Len(docs) : docs[d].id = docId
  THEN CHOOSE d \in 1..Len(docs) :
         docs[d].id = docId /\ \A e \in 1..(d - 1) : docs[e].id # docId
  ELSE 0

DocIds == {documentsData[d].id : d \in 1..Len(documentsData)}

\* The positions Sortable can report for an anchor dropped into a container
\* with the given children: the end, or next to an anchor that still has its
\* thumbnail (an emptied anchor has no area to hover over).
DropPositions(children) ==
  {Len(children)} \cup
  {p \in 0..Len(children) :
     \/ p < Len(children) /\ children[p + 1].hasDiv
     \/ p > 0 /\ children[p].hasDiv}

\* The body of _onThumbnailDrop: the new documentsData.
MovePage(docs, fromDocId, toDocId, oldIndex, newIndex) ==
  LET f == DocIndex(docs, fromDocId)
      t == DocIndex(docs, toDocId)
      movedPage == Removed(docs[f].pages, oldIndex)
      afterRemove == [docs EXCEPT ![f].pages = SpliceRemove(@, oldIndex)]
  IN  [afterRemove EXCEPT ![t].pages = SpliceInsert(@, newIndex, movedPage)]

\* A drop: Sortable has moved the dragged anchor from index oldIndex of the
\* source container to index newIndex of the target container and calls
\* onEnd, i.e. _onThumbnailDrop(evt).  This is what the handler does to the
\* grouping model.
MoveThumbnail(from, to, oldIndex, newIndex) ==
  /\ ops < MaxOps
  /\ from \in DocIds /\ to \in DocIds
  /\ oldIndex < Len(containers[from])
  /\ containers[from][oldIndex + 1].hasDiv
  /\ LET item == containers[from][oldIndex + 1]
         lifted == [containers EXCEPT ![from] = SpliceRemove(@, oldIndex)]
     IN  /\ newIndex \in DropPositions(lifted[to])
         /\ containers' = [lifted EXCEPT ![to] = SpliceInsert(@, newIndex, item)]
         /\ documentsData' = MovePage(documentsData, from, to, oldIndex, newIndex)
         /\ lastOp' = [op |-> "drop", from |-> from, to |-> to,
                       oldIndex |-> oldIndex, newIndex |-> newIndex,
                       item |-> item.id, before |-> documentsData]
  /\ ops' = ops + 1
  /\ UNCHANGED <<previousDocumentsData, thumbnails, nextDocId>>

\* _onThumbnailDrop as the grouping model sees it: the views and the
\* scheduler pass the handler ends with are not followed here.
OnThumbnailDrop(from, to, oldIndex, newIndex) ==
  /\ MoveThumbnail(from, to, oldIndex, newIndex)
  /\ UNCHANGED notDocs

\* The scan of _onDeleteThumbnail: documents in order, and in each
\* "doc.pages.findIndex((page) => page.id === thumbnail.id)".  The result is
\* <<d, i>> (1-based) for the first match, <<0, 0>> for none, and "throws"
\* when the scan reads .id of an undefined element before any match.
RECURSIVE FindPage(_, _, _, _)
FindPage(docs, id, d, i) ==
  IF d > Len(docs) THEN [throws |-> FALSE, at |-> <<0, 0>>]
  ELSE IF i > Len(docs[d].pages) THEN FindPage(docs, id, d + 1, 1)
  ELSE IF docs[d].pages[i] = Undefined THEN [throws |-> TRUE, at |-> <<0, 0>>]
  ELSE IF docs[d].pages[i].id = id THEN [throws |-> FALSE, at |-> <<d, i>>]
  ELSE FindPage(docs, id, d, i + 1)

\* this._thumbnails.indexOf(thumbnail), 1-based; 0 for -1.
ThumbIndex(thumbs, id) ==
  IF \E i \in 1..Len(thumbs) : thumbs[i].id = id
  THEN CHOOSE i \in 1..Len(thumbs) :
         thumbs[i].id = id /\ \A j \in 1..(i - 1) : thumbs[j].id # id
  ELSE 0

\* thumbnail.div.remove(): the .thumbnail div leaves its anchor, the anchor
\* stays a child of the container.
RemoveDiv(cs, id) ==
  [c \in DOMAIN cs |->
     [j \in 1..Len(cs[c]) |->
        IF cs[c][j].id = id THEN [cs[c][j] EXCEPT !.hasDiv = FALSE]
        ELSE cs[c][j]]]

\* _onDeleteThumbnail for the thumbnail whose trash button was clicked.
OnDeleteThumbnail(id) ==
  /\ ops < MaxOps
  /\ \E c \in DOMAIN containers :
       \E j \in 1..Len(containers[c]) :
         containers[c][j].id = id /\ containers[c][j].hasDiv
  /\ LET found == FindPage(documentsData, id, 1, 1)
         d == found.at[1]
         k == ThumbIndex(thumbnails, id)
     IN  IF found.throws
         THEN UNCHANGED <<documentsData, thumbnails, containers>>
         ELSE /\ documentsData' =
                   IF d = 0 THEN documentsData
                   ELSE [documentsData EXCEPT
                           ![d].pages = SpliceRemove(@, found.at[2] - 1)]
              /\ thumbnails' = IF k = 0 THEN thumbnails
                               ELSE SpliceRemove(thumbnails, k - 1)
              /\ containers' = RemoveDiv(containers, id)
  /\ ops' = ops + 1
  /\ lastOp' = [NoOp EXCEPT !.op = "delete", !.item = id,
                            !.before = documentsData]
  /\ UNCHANGED <<previousDocumentsData, nextDocId>>
  /\ UNCHANGED notDocs

\* removeDocumentContainer(docId), and the delete icon of a container made by
\* addNewEmptyDocumentContainer: the container leaves the DOM and the
\* document leaves documentsData; _thumbnails is left as it is.
RemoveDocumentContainer(docId) ==
  /\ ops < MaxOps
  /\ docId \in DocIds
  /\ documentsData' = SpliceRemove(documentsData, DocIndex(documentsData, docId) - 1)
  /\ containers' = [c \in DOMAIN containers \ {docId} |-> containers[c]]
  /\ ops' = ops + 1
  /\ lastOp' = [NoOp EXCEPT !.op = "removeDoc", !.from = docId,
                            !.before = documentsData]
  /\ UNCHANGED <<previousDocumentsData, thumbnails, nextDocId>>
  /\ UNCHANGED notDocs

\* addNewEmptyDocumentContainer(index): a document with a fresh id and no
\* pages is inserted at index, with an empty container.
AddNewEmptyDocumentContainer(index) ==
  /\ ops < MaxOps
  /\ Len(documentsData) < MaxDocs
  /\ index \in 0..Len(documentsData)
  /\ documentsData' = SpliceInsert(documentsData, index,
                                   [id |-> nextDocId, pages |-> <<>>])
  /\ containers' = [c \in DOMAIN containers \cup {nextDocId} |->
                      IF c = nextDocId THEN <<>> ELSE containers[c]]
  /\ nextDocId' = nextDocId + 1
  /\ ops' = ops + 1
  /\ lastOp' = [NoOp EXCEPT !.op = "addDoc", !.to = nextDocId,
                            !.before = documentsData]
  /\ UNCHANGED <<previousDocumentsData, thumbnails>>
  /\ UNCHANGED notDocs

\* "this._thumbnails.findIndex(t => t.id === oldPageId)" and the id update.
RenameThumb(thumbs, oldPageId, newPageId) ==
  LET k == ThumbIndex(thumbs, oldPageId)
  IN  IF k = 0 THEN thumbs ELSE [thumbs EXCEPT ![k].id = newPageId]

\* The variant the comment in the loop mentions: "For doc-local:
\* page.pageNumber = pageIndex + 1".
RECURSIVE RenumberPagesLocal(_, _, _, _, _)
RenumberPagesLocal(pages, docIndex, pageIndex, g, thumbs) ==
  IF pageIndex >= Len(pages)
  THEN [pages |-> pages, g |-> g, thumbs |-> thumbs, threw |-> FALSE]
  ELSE IF pages[pageIndex + 1] = Undefined
  THEN [pages |-> pages, g |-> g, thumbs |-> thumbs, threw |-> TRUE]
  ELSE LET page == pages[pageIndex + 1]
           newPageId == PageId(docIndex, pageIndex)
       IN  RenumberPagesLocal(
             [pages EXCEPT ![pageIndex + 1] =
                [id |-> newPageId, pageNumber |-> pageIndex + 1]],
             docIndex, pageIndex + 1, g + 1,
             RenameThumb(thumbs, page.id, newPageId))

\* The inner loop of renumberDocsAndPages over the pages of one document,
\* from pageIndex (0-based) on; g is globalPageNumber.  "page.id" throws a
\* TypeError on an undefined element, which ends the call where it is.
RECURSIVE RenumberPages(_, _, _, _, _)
RenumberPages(pages, docIndex, pageIndex, g, thumbs) ==
  IF pageIndex >= Len(pages)
  THEN [pages |-> pages, g |-> g, thumbs |-> thumbs, threw |-> FALSE]
  ELSE IF pages[pageIndex + 1] = Undefined
  THEN [pages |-> pages, g |-> g, thumbs |-> thumbs, threw |-> TRUE]
  ELSE LET page == pages[pageIndex + 1]
           newPageId == PageId(docIndex, pageIndex)
       IN  RenumberPages(
             [pages EXCEPT ![pageIndex + 1] =
                [id |-> newPageId, pageNumber |-> g]],
             docIndex, pageIndex + 1, g + 1,
             RenameThumb(thumbs, page.id, newPageId))

\* renumberDocsAndPages: the outer loop, from docIndex (0-based) on.
RECURSIVE RenumberDocs(_, _, _, _)
RenumberDocs(docs, docIndex, g, thumbs) ==
  IF docIndex >= Len(docs)
  THEN [docs |-> docs, thumbs |-> thumbs, threw |-> FALSE]
  ELSE LET r == RenumberPages(docs[docIndex + 1].pages, docIndex, 0, g, thumbs)
           docs2 == [docs EXCEPT ![docIndex + 1].pages = r.pages]
       IN  IF r.threw
           THEN [docs |-> docs2, thumbs |-> r.thumbs, threw |-> TRUE]
           ELSE RenumberDocs(docs2, docIndex + 1, r.g, r.thumbs)

\* The highest pageNumber in use.
RECURSIVE MaxPageNumber(_)
MaxPageNumber(flat) ==
  IF flat = <<>> THEN 0
  ELSE LET m == MaxPageNumber(Tail(flat))
       IN  IF Head(flat).pageNumber > m THEN Head(flat).pageNumber ELSE m

\* "let globalPageNumber = 1"
RenumberDocsAndPagesAfterLast(docs, thumbs) ==
  RenumberDocs(docs, 0, MaxPageNumber(Flatten(docs)) + 1, thumbs)
RenumberDocsAndPages(docs, thumbs) == RenumberDocs(docs, 0, 1, thumbs)

\* setDocument(pdfDocument, {documentsData}): #resetView empties _thumbnails,
\* the documents are renumbered and the containers rendered again.
SetDocument(docs) ==
  LET r == RenumberDocsAndPages(docs, <<>>)
  IN  /\ documentsData' = r.docs
      /\ previousDocumentsData' = r.docs
      /\ thumbnails' = RenderThumbnails(r.docs)
      /\ containers' = RenderContainers(r.docs)

\* applyChanges: flattens the pages ("p => p.pageNumber" throws on an
\* undefined element, before anything is changed), builds the PDF in that
\* order and opens it with the current documentsData.
ApplyChanges ==
  /\ ops < MaxOps
  /\ IF \E i \in 1..Len(Flatten(documentsData)) :
          Flatten(documentsData)[i] = Undefined
     THEN UNCHANGED <<documentsData, previousDocumentsData, thumbnails, containers>>
     ELSE SetDocument(documentsData)
  /\ ops' = ops + 1
  /\ lastOp' = [NoOp EXCEPT !.op = "apply", !.before = documentsData]
  /\ UNCHANGED nextDocId
  /\ UNCHANGED notDocs

\* undoChanges: opens the original PDF with previousDocumentsData.
UndoChanges ==
  /\ ops < MaxOps
  /\ SetDocument(previousDocumentsData)
  /\ ops' = ops + 1
  /\ lastOp' = [NoOp EXCEPT !.op = "undo", !.before = documentsData]
  /\ UNCHANGED nextDocId
  /\ UNCHANGED notDocs

ThumbIds == {thumbnails[i].id : i \in 1..Len(thumbnails)}

(***************************************************************************)
(* PDFThumbnailView: the render state machine of one thumbnail              *)
(***************************************************************************)

Views == 1..MaxViews

\* RenderingStates (ui_utils.js), as used by pdf_thumbnail_view.js
INITIAL == "INITIAL"
RUNNING == "RUNNING"
PAUSED == "PAUSED"
FINISHED == "FINISHED"

\* The constructor: no page, no render task, INITIAL, no continuation.
InitView ==
  /\ renderingState = [v \in Views |-> INITIAL]
  /\ pdfPage = [v \in Views |-> FALSE]
  /\ renderTask = [v \in Views |-> 0]
  /\ resume = [v \in Views |-> 0]
  /\ image = [v \in Views |-> FALSE]
  /\ draws = <<>>

\* What a draw() call records once the callbacks on its render task have
\* run: the outcome, the view's renderTask when they started (current), and
\* the view's fields before and after them.
NoFin == [outcome |-> "none", current |-> 0,
          stateBefore |-> "", stateAfter |-> "",
          imageBefore |-> FALSE, imageAfter |-> FALSE, taskAfter |-> 0]

\* renderTask.cancel(): a task that has not settled will reject with a
\* RenderingCancelledException; a settled one is not affected.
CancelNoEffect(ds, k) == ds
Cancel(ds, k) ==
  IF ds[k].rt \in {"rendering", "atContinue"}
  THEN [ds EXCEPT ![k].rt = "cancelled"] ELSE ds

\* The fields of all views, as one value that the operations below map to
\* the value after them (so that a handler that calls several of them in a
\* row is one step).
ViewState ==
  [renderingState |-> renderingState, pdfPage |-> pdfPage,
   renderTask |-> renderTask, resume |-> resume, image |-> image,
   draws |-> draws]

SetViewState(S) ==
  /\ renderingState' = S.renderingState
  /\ pdfPage' = S.pdfPage
  /\ renderTask' = S.renderTask
  /\ resume' = S.resume
  /\ image' = S.image
  /\ draws' = S.draws

\* cancelRendering()
CancelRenderingOf(S, v) ==
  [S EXCEPT !.draws = IF S.renderTask[v] # 0
                      THEN Cancel(S.draws, S.renderTask[v]) ELSE S.draws,
            !.renderTask[v] = 0,
            !.resume[v] = 0]

\* reset(), also as update() calls it: cancelRendering(), INITIAL, the image
\* gives way to the placeholder and is deleted.
ResetKeepsTask(S, v) ==
  [S EXCEPT !.renderingState[v] = INITIAL, !.image[v] = FALSE]
ResetOf(S, v) ==
  [CancelRenderingOf(S, v) EXCEPT !.renderingState[v] = INITIAL,
                                  !.image[v] = FALSE]

Reset(v) ==
  /\ SetViewState(ResetOf(ViewState, v))
  /\ UNCHANGED notView

\* setPdfPage(pdfPage): binds the page, then reset().
SetPdfPageOf(S, v) == ResetOf([S EXCEPT !.pdfPage[v] = TRUE], v)

SetPdfPage(v) ==
  /\ SetViewState(SetPdfPageOf(ViewState, v))
  /\ UNCHANGED notView

\* What draw() returns when renderingState is not INITIAL:
\* console.error(...) and "return undefined" from an async function.
DrawNotInitialRejects(v) == "rejected"
DrawNotInitial(v) == "fulfilled"

\* The test draw() starts with: only an INITIAL view is drawn.
CanDrawUnlessFinished(S, v) == S.renderingState[v] # FINISHED
CanDraw(S, v) == S.renderingState[v] = INITIAL

\* The renderingState draw() leaves when the view has no pdfPage:
\* "this.renderingState = RenderingStates.FINISHED; throw new Error(...)".
NoPageStateUnchanged(S, v) == S.renderingState[v]
NoPageState(S, v) == FINISHED

\* The record of one draw() call.
DrawRecord(S, v, after, taskAfter, status, rt) ==
  [view |-> v, before |-> S.renderingState[v], after |-> after,
   taskBefore |-> S.renderTask[v], taskAfter |-> taskAfter,
   status |-> status, rt |-> rt, fin |-> NoFin]

\* draw()
DrawOf(S, v) ==
  IF ~CanDraw(S, v)
  THEN [S EXCEPT !.draws = Append(@, DrawRecord(S, v, S.renderingState[v],
                                               S.renderTask[v],
                                               DrawNotInitial(v), "none"))]
  ELSE IF ~S.pdfPage[v]
  THEN [S EXCEPT !.renderingState[v] = NoPageState(S, v),
                 !.draws = Append(@, DrawRecord(S, v, NoPageState(S, v),
                                               S.renderTask[v],
                                               "rejected", "none"))]
  ELSE \* RUNNING, "this.renderTask = pdfPage.render(renderContext)"
       [S EXCEPT !.renderingState[v] = RUNNING,
                 !.renderTask[v] = Len(S.draws) + 1,
                 !.draws = Append(@, DrawRecord(S, v, RUNNING,
                                               Len(S.draws) + 1,
                                               "pending", "rendering"))]

Draw(v) ==
  /\ Len(draws) < MaxDraws
  /\ SetViewState(DrawOf(ViewState, v))
  /\ UNCHANGED notView

\* renderContinueCallback(cont) when the view is not the highest priority:
\* PAUSED, and the continuation is stored.  (When it is, cont() is called at
\* once and nothing changes.)
RenderContinuePause(k) ==
  /\ draws[k].rt = "rendering"
  /\ renderingState' = [renderingState EXCEPT ![draws[k].view] = PAUSED]
  /\ resume' = [resume EXCEPT ![draws[k].view] = k]
  /\ draws' = [draws EXCEPT ![k].rt = "atContinue"]
  /\ UNCHANGED <<pdfPage, renderTask, image>>
  /\ UNCHANGED notView

\* this.resume(): RUNNING, cont().
ResumeOf(S, v) ==
  [S EXCEPT !.renderingState[v] = RUNNING,
            !.draws[S.resume[v]].rt = IF @ = "atContinue" THEN "rendering" ELSE @]

\* this.resume(), called for a PAUSED view.
Resume(v) ==
  /\ renderingState[v] = PAUSED
  /\ resume[v] # 0
  /\ SetViewState(ResumeOf(ViewState, v))
  /\ UNCHANGED notView

\* #finishRenderTask(renderTask, canvas, error) for render task k, as run by
\* the callbacks draw() attached to renderTask.promise; its outcome settles
\* the promise draw() returned.
\* "error instanceof RenderingCancelledException"
IsCancellationNever(outcome) == FALSE
IsCancellation(outcome) == outcome = "cancelled"

\* How the promise draw() returned settles: "if (error) { throw error; }"
\* after the view has been marked FINISHED, nothing thrown otherwise.
FinishStatusSwallow(outcome) == "fulfilled"
FinishStatus(outcome) == IF outcome = "failed" THEN "rejected" ELSE "fulfilled"

FinishRenderTaskWith(k, outcome) ==
  LET v == draws[k].view
      task2 == IF renderTask[v] = k THEN 0 ELSE renderTask[v]
      state2 == IF IsCancellation(outcome) THEN renderingState[v] ELSE FINISHED
      image2 == IF IsCancellation(outcome) THEN image[v] ELSE TRUE
  IN  /\ renderTask' = [renderTask EXCEPT ![v] = task2]
      /\ renderingState' = [renderingState EXCEPT ![v] = state2]
      /\ image' = [image EXCEPT ![v] = image2]
      /\ draws' = [draws EXCEPT
                     ![k].rt = "finished",
                     ![k].status = FinishStatus(outcome),
                     ![k].fin = [outcome |-> outcome,
                                 current |-> renderTask[v],
                                 stateBefore |-> renderingState[v],
                                 stateAfter |-> state2,
                                 imageBefore |-> image[v],
                                 imageAfter |-> image2,
                                 taskAfter |-> task2]]
      /\ UNCHANGED <<pdfPage, resume>>
      /\ UNCHANGED notView

\* renderTask.promise settles while the task renders: the page was rendered,
\* or rendering failed with an error.  The callbacks run as microtasks of
\* the step that settles the promise, before any other handler runs.
RenderSettles(k, ok) ==
  /\ draws[k].rt = "rendering"
  /\ FinishRenderTaskWith(k, IF ok THEN "succeeded" ELSE "failed")

\* The callbacks of a cancelled render task: cancel() rejected its promise
\* inside reset(), and they run once the code that called reset() (and
\* perhaps draw() again) has returned.
FinishRenderTask(k) ==
  /\ draws[k].rt = "cancelled"
  /\ FinishRenderTaskWith(k, "cancelled")

DrawIds == 1..Len(draws)

NextView ==
  \/ \E v \in Views : Reset(v)
  \/ \E v \in Views : SetPdfPage(v)
  \/ \E v \in Views : Draw(v)
  \/ \E k \in DrawIds : RenderContinuePause(k)
  \/ \E v \in Views : Resume(v)
  \/ \E k \in DrawIds, ok \in BOOLEAN : RenderSettles(k, ok)
  \/ \E k \in DrawIds : FinishRenderTask(k)

(***************************************************************************)
(* The thumbnail scheduler: PDFThumbnailViewer.forceRendering and the        *)
(* rendering queue it asks                                                    *)
(***************************************************************************)

\* The windows getVisibleElements can report: a run of consecutive views.
Windows == {w \in [first : Views, last : Views] : w.first <= w.last}

\* What the last forceRendering() did: what it returned, the view it picked
\* (0 for none), and whether the picked view was one whose page load had
\* failed.
NoPass == [called |-> FALSE, returned |-> FALSE, picked |-> 0, retry |-> FALSE]

\* The views whose page load has failed and that have no page.
Unloaded(SS) == {v \in SS.failedLoad : ~SS.view.pdfPage[v]}

\* The scheduler before its first pass; watchScroll starts with down: true.
InitScheduler ==
  /\ visible = [first |-> 1, last |-> 1]
  /\ scrollDown = TRUE
  /\ highestPriorityPage = 0
  /\ loading = {}
  /\ passes = 0
  /\ lastPass = NoPass
  /\ failedLoad = {}

\* The views and the scheduler's own fields as one value (see ViewState).
SchedState ==
  [view |-> ViewState, highestPriorityPage |-> highestPriorityPage,
   loading |-> loading, lastPass |-> lastPass, failedLoad |-> failedLoad]

SetSchedState(SS) ==
  /\ SetViewState(SS.view)
  /\ highestPriorityPage' = SS.highestPriorityPage
  /\ loading' = SS.loading
  /\ lastPass' = SS.lastPass
  /\ failedLoad' = SS.failedLoad

\* isViewFinished(view)
NotFinished(S) == {v \in Views : S.renderingState[v] # FINISHED}

\* #getScrollAhead(visible): a thumbnail's id is its page id, a string, so
\* neither "first.id === 1" nor "last.id === _thumbnails.length" holds and
\* the result is this.scroll.down.
GetScrollAhead(w, down) == down

\* getHighestPriority(visible, views, scrollAhead): the views it may return.
\* A visible view that is not FINISHED if there is one; otherwise the nearest
\* view that is not FINISHED outside the window in the scroll-ahead
\* direction; otherwise none.
GetHighestPriority(S, w, down) ==
  LET vis == {v \in w.first..w.last : v \in NotFinished(S)}
      ahead == {v \in NotFinished(S) : v > w.last}
      behind == {v \in NotFinished(S) : v < w.first}
  IN  IF vis # {} THEN vis
      ELSE IF GetScrollAhead(w, down)
      THEN {v \in ahead : \A u \in ahead : v <= u}
      ELSE {v \in behind : \A u \in behind : v >= u}

\* renderView(view) of the rendering queue.
RenderViewOf(SS, v) ==
  LET st == SS.view.renderingState[v] IN
    IF st = FINISHED THEN SS
    ELSE IF st = PAUSED
    THEN [SS EXCEPT !.highestPriorityPage = v, !.view = ResumeOf(SS.view, v)]
    ELSE IF st = RUNNING
    THEN [SS EXCEPT !.highestPriorityPage = v]
    ELSE [SS EXCEPT !.highestPriorityPage = v, !.view = DrawOf(SS.view, v)]

\* What forceRendering() returns for the view getHighestPriority gave it
\* (0 for none).
ForceRenderingReturnsTrue(thumbView) == TRUE
ForceRenderingReturns(thumbView) == thumbView # 0

\* forceRendering() with thumbView the view picked (0 for none): a picked
\* view whose page is loaded is handed to renderView, one whose page is not
\* is handed over once #ensurePdfPageLoaded has settled (getPage gives the
\* same promise to every caller that asks for the same page, so the callers
\* waiting for one page are served together).
ForceRenderingOf(SS, thumbView) ==
  LET noted == [SS EXCEPT
                  !.lastPass = [called |-> TRUE,
                                returned |-> ForceRenderingReturns(thumbView),
                                picked |-> thumbView,
                                retry |-> thumbView \in Unloaded(SS)]]
  IN  IF thumbView = 0 THEN noted
      ELSE IF SS.view.pdfPage[thumbView]
      THEN RenderViewOf(noted, thumbView)
      ELSE [noted EXCEPT !.loading = @ \cup {thumbView}]

\* The views a pass over window w may pick.
Picks(S, w, down) ==
  IF GetHighestPriority(S, w, down) = {} THEN {0}
  ELSE GetHighestPriority(S, w, down)

\* A step that made draw() calls stays within the bound on them.
WithinBounds(SS, maxDraws) == Len(SS.view.draws) <= maxDraws

\* One scheduler pass over window w, from views S and scheduler SS.
PassOver(SS, w, down, maxDraws) ==
  \E c \in Picks(SS.view, w, down) :
    LET SS2 == ForceRenderingOf(SS, c)
    IN  WithinBounds(SS2, maxDraws) /\ SetSchedState(SS2)

\* renderHighestPriority() -> forceRendering(): one scheduler pass.
ForceRendering ==
  /\ PassOver(SchedState, visible, scrollDown, MaxDraws)
  /\ UNCHANGED <<visible, scrollDown, passes>>
  /\ UNCHANGED notScheduler

\* A scroll event: watchScroll notes the direction, #scrollUpdated runs a
\* pass over the new window.
Scroll(w) ==
  /\ w # visible
  /\ visible' = w
  /\ scrollDown' = (w.first > visible.first \/ w.last > visible.last)
  /\ PassOver(SchedState, w, scrollDown', MaxDraws)
  /\ UNCHANGED passes
  /\ UNCHANGED notScheduler

\* #ensurePdfPageLoaded settles for view v: getPage gave the page (it is
\* bound unless the view has one by now) or failed (logged, null); either
\* way forceRendering's callback hands the view to renderView.
PageLoadedWithin(v, ok, maxDraws) ==
  /\ v \in loading
  /\ LET SS0 == [SchedState EXCEPT !.loading = @ \ {v}]
         SS1 == IF ok
                THEN IF SS0.view.pdfPage[v] THEN SS0
                     ELSE [SS0 EXCEPT !.view = SetPdfPageOf(@, v)]
                ELSE [SS0 EXCEPT !.failedLoad = @ \cup {v}]
         SS == RenderViewOf(SS1, v)
     IN  WithinBounds(SS, maxDraws) /\ SetSchedState(SS)
  /\ UNCHANGED <<visible, scrollDown, passes>>
  /\ UNCHANGED notScheduler

PageLoaded(v, ok) == PageLoadedWithin(v, ok, MaxDraws)

\* "const newRotation = ((thumbnail.rotation || 0) + 90) % 360"
NewRotation(rotation) == (rotation + 90) % 360

\* _onRotateThumbnail for the thumbnail of view v, which is on screen (its
\* rotate button was clicked) and whose page is loaded: page.rotation is
\* set, then reRenderWithRotation (this.rotation, reset(), draw()), then a
\* scheduler pass.
OnRotateThumbnail(v) ==
  /\ v \in visible.first..visible.last
  /\ pdfPage[v]
  /\ LET newRotation == NewRotation(thumbRotation[v])
     IN  /\ pageRotation' = [pageRotation EXCEPT ![v] = newRotation]
         /\ thumbRotation' = [thumbRotation EXCEPT ![v] = newRotation]
  /\ LET S1 == DrawOf(ResetOf(ViewState, v), v)
     IN  PassOver([SchedState EXCEPT !.view = S1], visible, scrollDown, MaxDraws)
  /\ UNCHANGED <<visible, scrollDown, passes, pagesRotation>>
  /\ UNCHANGED notRotation

\* The angles isValidRotation accepts, as pdfViewer.pagesRotation hands them
\* on ("rotation %= 360; if (rotation < 0) rotation += 360").
Rotations == {0, 90, 180, 270}

RECURSIVE UpdateAll(_, _)
UpdateAll(S, n) == IF n = 0 THEN S ELSE ResetOf(UpdateAll(S, n - 1), n)

\* onRotationChanging(evt), when the whole document is rotated: "set
\* pagesRotation(rotation)" gives every thumbnail update({ rotation }), i.e.
\* "this.rotation = rotation" and reset(); then a scheduler pass.
OnRotationChanging(rotation) ==
  /\ rotation # pagesRotation
  /\ pagesRotation' = rotation
  /\ thumbRotation' = [v \in Views |-> rotation]
  /\ LET S1 == UpdateAll(ViewState, MaxViews)
     IN  PassOver([SchedState EXCEPT !.view = S1], visible, scrollDown, MaxDraws)
  /\ UNCHANGED <<visible, scrollDown, passes, pageRotation>>
  /\ UNCHANGED notRotation

\* renderContinueCallback(cont) of render task k:
\* "if (!this.renderingQueue.isHighestPriority(this))" pause.
RenderContinue(k) ==
  /\ highestPriorityPage # draws[k].view
  /\ RenderContinuePause(k)

NextScheduler ==
  \/ ForceRendering
  \/ \E w \in Windows : Scroll(w)
  \/ \E v \in Views, ok \in BOOLEAN : PageLoaded(v, ok)
  \/ \E v \in Views : OnRotateThumbnail(v)
  \/ \E k \in DrawIds : RenderContinue(k)
  \/ \E k \in DrawIds, ok \in BOOLEAN : RenderSettles(k, ok)
  \/ \E k \in DrawIds : FinishRenderTask(k)

\* The scheduler without the rotate button (no view is reset while it
\* renders, so no render task is cancelled).
NextScrolling ==
  \/ ForceRendering
  \/ \E w \in Windows : Scroll(w)
  \/ \E v \in Views, ok \in BOOLEAN : PageLoaded(v, ok)
  \/ \E k \in DrawIds : RenderContinue(k)
  \/ \E k \in DrawIds, ok \in BOOLEAN : RenderSettles(k, ok)

\* The scheduler loop on its own, "pick the highest priority, render it, wait
\* for completion, repeat": a pass is made when no view is being rendered and
\* no page is being loaded, and the window stays where it is.
Idle ==
  /\ \A v \in Views : renderingState[v] \notin {RUNNING, PAUSED}
  /\ loading = {}

\* The loop may make one draw() call more than it has views.
LoopDraws == MaxViews + 1

SchedulerPass ==
  /\ Idle
  /\ PassOver(SchedState, visible, scrollDown, LoopDraws)
  /\ passes' = passes + (IF lastPass'.returned THEN 1 ELSE 0)
  /\ UNCHANGED <<visible, scrollDown>>
  /\ UNCHANGED notScheduler

NextPasses ==
  \/ SchedulerPass
  \/ \E v \in Views, ok \in BOOLEAN : PageLoadedWithin(v, ok, LoopDraws)
  \/ \E k \in DrawIds, ok \in BOOLEAN : RenderSettles(k, ok)

\* The viewer with its thumbnails rendered: each page is loaded already or
\* has still to be, some window is visible.
InitThumbnails ==
  /\ renderingState = [v \in Views |-> INITIAL]
  /\ pdfPage \in [Views -> BOOLEAN]
  /\ renderTask = [v \in Views |-> 0]
  /\ resume = [v \in Views |-> 0]
  /\ image = [v \in Views |-> FALSE]
  /\ draws = <<>>
  /\ visible \in Windows
  /\ scrollDown = TRUE
  /\ highestPriorityPage = 0
  /\ loading = {}
  /\ passes = 0
  /\ lastPass = NoPass
  /\ failedLoad = {}

TaskIds == 1..Len(tasks)

NextQueue ==
  \/ AddTask
  \/ Run
  \/ \E t \in TaskIds, ok \in BOOLEAN : Settle(t, ok)
  \/ \E t \in TaskIds : Record(t)
  \/ \E t \in TaskIds : Finally(t)

\* The documented use: every addTask first, then one run().
NextQueueOnce ==
  \/ AddTask /\ runs = <<>>
  \/ Run /\ runs = <<>>
  \/ \E t \in TaskIds, ok \in BOOLEAN : Settle(t, ok)
  \/ \E t \in TaskIds : Record(t)
  \/ \E t \in TaskIds : Finally(t)

\* The documents that can be selected for a batch; the batch is documents
\* 1..n, and task t of the batch's queue is the wrappedTask of document t.
Documents == 1..MaxBatch

\* "new ConcurrencyQueue(3)"
ExtractConcurrency == 3

\* setupState(docId) for every document; no batch has been started.
InitStates ==
  /\ documentStates = [d \in Documents |-> "none"]
  /\ progressMap = <<>>
  /\ totalDocs = 0
  /\ overall = [num |-> 0, den |-> 1]
  /\ percent = 0
  /\ documentProgress = [d \in Documents |-> 0]
  /\ documentResult = [d \in Documents |-> FALSE]
  /\ attempts = <<>>

\* The /Rotate entry of the page behind view v (pdfPage.rotate): the pages of
\* the open document are turned by 0, 90, 180, 270, 0, ... degrees.
Rotate(v) == (90 * (v - 1)) % 360

\* initializeDocuments gives each page "rotation: page.rotate % 360"; a
\* thumbnail is constructed with rotation 0 and gets "thumbnail.rotation =
\* pdfPage.rotate" when #renderDocumentContainers has its page; the viewer
\* starts with _pagesRotation 0.
InitRotation ==
  /\ pageRotation = [v \in Views |-> Rotate(v) % 360]
  /\ thumbRotation = [v \in Views |-> IF pdfPage[v] THEN Rotate(v) ELSE 0]
  /\ pagesRotation = 0

Init ==
  /\ InitQueue /\ InitViewer /\ InitView /\ InitScheduler /\ InitStates
  /\ InitRotation

SpecQueue == Init /\ [][NextQueue]_vars

\* Every started task settles (the premise of the drain claims) and the
\* event loop runs every queued promise callback.
FairQueue ==
  /\ \A t \in 1..MaxTasks :
       /\ WF_vars(t \in TaskIds /\ \E ok \in BOOLEAN : Settle(t, ok))
       /\ WF_vars(t \in TaskIds /\ Record(t))
       /\ WF_vars(t \in TaskIds /\ Finally(t))

SpecQueueOnce == Init /\ [][NextQueueOnce]_vars /\ FairQueue

\* Any use of the queue (addTask and run() at any time), with every started
\* task settling and the event loop running the callbacks.
NextQueueLate ==
  \/ AddTask /\ Len(tasks) < MaxLateTasks
  \/ Run
  \/ \E t \in TaskIds, ok \in BOOLEAN : Settle(t, ok)
  \/ \E t \in TaskIds : Record(t)
  \/ \E t \in TaskIds : Finally(t)

SpecQueueFair == Init /\ [][NextQueueLate]_vars /\ FairQueue

NextDocs ==
  \/ \E from \in DocIds, to \in DocIds :
       \E oldIndex \in 0..(Len(containers[from]) - 1),
          newIndex \in 0..Len(containers[to]) :
         OnThumbnailDrop(from, to, oldIndex, newIndex)
  \/ \E id \in ThumbIds : OnDeleteThumbnail(id)
  \/ \E docId \in DocIds : RemoveDocumentContainer(docId)
  \/ \E index \in 0..Len(documentsData) : AddNewEmptyDocumentContainer(index)
  \/ ApplyChanges
  \/ UndoChanges

InitGrouped ==
  /\ InitQueue /\ concurrency = DefaultConcurrency
  /\ InitDocuments /\ InitView /\ InitScheduler /\ InitStates
  /\ InitRotation

SpecDocs == InitGrouped /\ [][NextDocs]_vars

InitThumbnail ==
  /\ InitQueue /\ concurrency = DefaultConcurrency
  /\ InitViewer /\ InitView /\ InitScheduler /\ InitStates
  /\ InitRotation

SpecView == InitThumbnail /\ [][NextView]_vars

\* cancelRendering() called on its own, without reset(): what
\* PDFThumbnailViewer.#cancelRendering does to every thumbnail when
\* setDocument is about to replace them.
CancelRendering(v) ==
  /\ SetViewState(CancelRenderingOf(ViewState, v))
  /\ UNCHANGED notView

\* The methods of a view in any order, cancelRendering() included.
NextViewCancelling ==
  \/ NextView
  \/ \E v \in Views : CancelRendering(v)

SpecViewCancelling == InitThumbnail /\ [][NextViewCancelling]_vars

InitRendering ==
  /\ InitQueue /\ concurrency = DefaultConcurrency
  /\ InitViewer /\ InitThumbnails /\ InitStates
  /\ InitRotation

SpecScheduler == InitRendering /\ [][NextScheduler]_vars

SpecScrolling == InitRendering /\ [][NextScrolling]_vars

\* What _onThumbnailDrop does to the views of _thumbnails before its
\* scheduler pass: nothing (RecreateViews is what rendering the containers
\* again would do: new views, INITIAL, without page or image, the render
\* tasks of the old ones cancelled).
RECURSIVE CancelAll(_, _)
CancelAll(S, n) ==
  IF n = 0 THEN S ELSE CancelRenderingOf(CancelAll(S, n - 1), n)

RecreateViews(S) ==
  [CancelAll(S, MaxViews) EXCEPT
     !.renderingState = [v \in Views |-> INITIAL],
     !.pdfPage = [v \in Views |-> FALSE],
     !.image = [v \in Views |-> FALSE]]
MovedViews(S) == S

\* _onThumbnailDrop, the whole handler: the page is moved in documentsData,
\* then "this.renderingQueue.renderHighestPriority()", a scheduler pass.
OnThumbnailDropRendered(from, to, oldIndex, newIndex) ==
  /\ ops < MaxDrops
  /\ MoveThumbnail(from, to, oldIndex, newIndex)
  /\ PassOver([SchedState EXCEPT !.view = MovedViews(ViewState)],
              visible, scrollDown, MaxDraws)
  /\ UNCHANGED <<visible, scrollDown, passes>>
  /\ UNCHANGED <<qvars, xvars, pvars, rvars>>

\* Documents whose pages are the pages of the views: view v is
\* _thumbnails[v], and all of them are on screen.
DropLayouts == {<<1, MaxViews - 1>>}

InitDropping ==
  /\ InitQueue /\ concurrency = DefaultConcurrency
  /\ \E layout \in DropLayouts :
       LET docs == InitializeDocuments(layout)
       IN  /\ documentsData = docs
           /\ previousDocumentsData = docs
           /\ thumbnails = RenderThumbnails(docs)
           /\ containers = RenderContainers(docs)
           /\ nextDocId = Len(layout)
           /\ ops = 0
           /\ lastOp = NoOp
  /\ InitThumbnails /\ visible = [first |-> 1, last |-> MaxViews]
  /\ InitStates /\ InitRotation

NextDropping ==
  \/ \E from \in DocIds, to \in DocIds :
       \E oldIndex \in 0..(Len(containers[from]) - 1),
          newIndex \in 0..Len(containers[to]) :
         OnThumbnailDropRendered(from, to, oldIndex, newIndex)
  \/ ForceRendering
  \/ \E k \in DrawIds : RenderContinue(k)
  \/ \E k \in DrawIds : RenderSettles(k, TRUE)

SpecDropping == InitDropping /\ [][NextDropping]_vars

\* The thumbnails with their pages loaded, the rotate buttons and the
\* rotation of the whole document.
NextRotation ==
  \/ \E v \in Views : OnRotateThumbnail(v)
  \/ \E rotation \in Rotations : OnRotationChanging(rotation)
  \/ \E w \in Windows : Scroll(w)
  \/ \E k \in DrawIds, ok \in BOOLEAN : RenderSettles(k, ok)

InitRotating == InitRendering /\ \A v \in Views : pdfPage[v]

SpecRotation == InitRotating /\ [][NextRotation]_vars

\* The loop is started with the window anywhere and either scroll direction.
InitLoop ==
  /\ InitQueue /\ concurrency = DefaultConcurrency
  /\ InitViewer /\ InitStates
  /\ \E down \in BOOLEAN :
       /\ scrollDown = down
       /\ renderingState = [v \in Views |-> INITIAL]
       /\ pdfPage \in [Views -> BOOLEAN]
       /\ renderTask = [v \in Views |-> 0]
       /\ resume = [v \in Views |-> 0]
       /\ image = [v \in Views |-> FALSE]
       /\ draws = <<>>
       /\ visible \in Windows
       /\ highestPriorityPage = 0
       /\ loading = {}
       /\ passes = 0
       /\ lastPass = NoPass
       /\ failedLoad = {}
  /\ InitRotation

SpecPasses == InitLoop /\ [][NextPasses]_vars

(***************************************************************************)
(* Bulk extraction: extractDataFromDocuments and processDocument (app.js)  *)
(***************************************************************************)

\* anyDocumentProcessing()
AnyDocumentProcessing(ds) == \E d \in Documents : ds[d] = "processing"

RECURSIVE SumProgress(_, _)
SumProgress(pm, n) == IF n = 0 THEN 0 ELSE pm[n] + SumProgress(pm, n - 1)

\* updateOverallProgress: the level handed to this.progress, sum / totalDocs,
\* kept as a fraction.  Progress values are in hundredths (0.5 is 50).
UpdateOverallProgress(pm, total) ==
  [num |-> SumProgress(pm, total), den |-> total]

\* "const percent = Math.round(level * 100)", for a level kept as a fraction
\* of hundredths.
Round(level) == (2 * level.num + level.den) \div (2 * level.den)

\* progress(level): the loadingBar.percent it leaves, given the one it
\* finds.  A report of 0 on a bar at 100 resets the bar, a lower percentage
\* returns early, anything else is stored.
ProgressUnguarded(bar, level) == Round(level)
Progress(bar, level) ==
  LET p == Round(level)
  IN  IF p = 0 /\ bar = 100 THEN 0
      ELSE IF p < bar THEN bar
      ELSE p

\* The loop over docsToProcess marks every document of the batch before the
\* queue runs: setDocumentState(docId, 'processing').
MarkBatch(ds, n) ==
  [d \in Documents |-> IF d <= n THEN "processing" ELSE ds[d]]

\* The tasks a runNext() started: each calls processDocument, which reports
\* progress 0 and sets the document's state to processing before its first
\* await.
StartedBy(ts, ts2) ==
  {t \in DOMAIN ts : ts[t].st = "queued" /\ ts2[t].st = "running"}

ProcessDocumentStarts(ds, started) ==
  [d \in Documents |-> IF d \in started THEN "processing" ELSE ds[d]]

\* animateProgress(progressCallback, start, end, ms): where the animation
\* that runs while the document is in state st starts and ends.  The
\* simulation never writes control.currentProgress, so the first animation
\* starts at 0 and the final one at 0.9.
AnimationStart(st) == IF st = "processing" THEN 0 ELSE 90
AnimationTargetFull(st) == 100
AnimationTarget(st) == IF st = "processing" THEN 50 ELSE 100

\* The values an animation hands to the callback, "start + (end - start) *
\* fraction": a frame half way and the last frame.
Frames(start, end) == {start + (end - start) \div 2, end}

\* The documents whose processDocument call is under way.
Processing == {d \in 1..totalDocs : tasks[d].st = "running"}

\* extractDataFromDocuments(docIds) for a selection of n documents: the
\* guard, progressMap, the marking loop, addTask for every document and
\* queue.run(), whose first runNext() starts the first tasks.
ExtractDataFromDocuments(n) ==
  /\ ~AnyDocumentProcessing(documentStates)
  /\ totalDocs = 0
  /\ LET pm == [d \in 1..n |-> 0]
         f == FillSlots([t \in 1..n |-> t], 0, 0, [t \in 1..n |-> NewTask], 1)
     IN  /\ queue' = f.queue
         /\ activeCount' = f.activeCount
         /\ currentIndex' = f.currentIndex
         /\ tasks' = f.tasks
         /\ runs' = <<[resolveCalls |-> 0, addedAtCall |-> n]>>
         /\ progressMap' = pm
         /\ totalDocs' = n
         /\ documentStates' =
              ProcessDocumentStarts(MarkBatch(documentStates, n),
                                    StartedBy([t \in 1..n |-> NewTask], f.tasks))
         /\ overall' = UpdateOverallProgress(pm, n)
         /\ percent' = Progress(percent, overall')
  /\ UNCHANGED <<concurrency, results, recordedOrder>>
  /\ UNCHANGED <<notExtraction, pvars>>

\* The progress callback of document d: progressMap[docId] = progressValue,
\* then updateOverallProgress().
ProgressCallback(d, value) ==
  /\ progressMap' = [progressMap EXCEPT ![d] = value]
  /\ overall' = UpdateOverallProgress(progressMap', totalDocs)
  /\ percent' = Progress(percent, overall')

\* A frame of the animation to 0.5 that follows extractPagesFromPdf.
AnimateProgress(d) ==
  /\ d \in Processing
  /\ documentStates[d] = "processing"
  /\ \E value \in Frames(AnimationStart("processing"),
                         AnimationTarget("processing")) :
       /\ value > progressMap[d]
       /\ ProgressCallback(d, value)
  /\ UNCHANGED <<documentStates, totalDocs>>
  /\ UNCHANGED <<qvars, notExtraction, pvars>>

\* The server's answer has been parsed and the simulation has finished:
\* setDocumentState(docId, 'done').
DocumentDone(d) ==
  /\ d \in Processing
  /\ documentStates[d] = "processing"
  /\ progressMap[d] = AnimationTarget("processing")
  /\ documentStates' = [documentStates EXCEPT ![d] = "done"]
  /\ UNCHANGED xprogress
  /\ UNCHANGED <<qvars, notExtraction, pvars>>

\* extractPagesFromPdf throws (no progress reported yet), or the request
\* fails or is answered with a non-2xx status (after the animation to 0.5):
\* the catch block's setDocumentState(docId, 'error').
DocumentError(d) ==
  /\ d \in Processing
  /\ documentStates[d] = "processing"
  /\ progressMap[d] \in {0, AnimationTarget("processing")}
  /\ documentStates' = [documentStates EXCEPT ![d] = "error"]
  /\ UNCHANGED xprogress
  /\ UNCHANGED <<qvars, notExtraction, pvars>>

\* A frame, not the last, of the final animation from 0.9 to 1.
AnimateFinal(d) ==
  /\ d \in Processing
  /\ documentStates[d] \in {"done", "error"}
  /\ \E value \in Frames(AnimationStart(documentStates[d]),
                         AnimationTarget(documentStates[d])) :
       /\ value > progressMap[d]
       /\ value < AnimationTarget(documentStates[d])
       /\ ProgressCallback(d, value)
  /\ UNCHANGED <<documentStates, totalDocs>>
  /\ UNCHANGED <<qvars, notExtraction, pvars>>

\* The last frame of the final animation reports 1 and resolves;
\* processDocument returns or rethrows, wrappedTask turns a rejection into
\* null, and the queue's callbacks store the result, release the slot and
\* call runNext(), which may start the next documents.
DocumentSettles(d) ==
  /\ d \in Processing
  /\ documentStates[d] \in {"done", "error"}
  /\ progressMap[d] < AnimationTarget(documentStates[d])
  /\ ProgressCallback(d, AnimationTarget(documentStates[d]))
  /\ results' = ThenHandler(results, tasks[d].taskIndex, d)
  /\ recordedOrder' = Append(recordedOrder, d)
  /\ RunNext(tasks[d].run, ReleaseSlot(activeCount, "ok"), runs,
             [tasks EXCEPT ![d].st = "finished", ![d].outcome = "ok"])
  /\ documentStates' =
       ProcessDocumentStarts(documentStates, StartedBy(tasks, tasks'))
  /\ UNCHANGED <<concurrency, totalDocs>>
  /\ UNCHANGED <<notExtraction, pvars>>

NextExtraction ==
  \/ \E n \in 1..MaxBatch : ExtractDataFromDocuments(n)
  \/ \E d \in Documents : AnimateProgress(d)
  \/ \E d \in Documents : DocumentDone(d)
  \/ \E d \in Documents : DocumentError(d)
  \/ \E d \in Documents : AnimateFinal(d)
  \/ \E d \in Documents : DocumentSettles(d)

\* The state extractDataFromDocuments works from: the queue it creates
\* (concurrency 3, room for a result per document) and no batch yet.
InitExtraction ==
  /\ concurrency = ExtractConcurrency
  /\ queue = <<>>
  /\ activeCount = 0
  /\ results = [i \in 0..(MaxBatch - 1) |-> Empty]
  /\ currentIndex = 0
  /\ tasks = <<>>
  /\ runs = <<>>
  /\ recordedOrder = <<>>
  /\ InitViewer /\ InitView /\ InitScheduler /\ InitStates
  /\ InitRotation

SpecExtraction == InitExtraction /\ [][NextExtraction]_vars

(***************************************************************************)
(* One document at a time: processDocument, await by await, as the retry   *)
(* and extract buttons of a document call it (app.js:1404-1485, 3328-3370).*)
(* SpecExtraction above follows a batch by the state and progressMap       *)
(* writes only; the progress bar value and the result of a document are    *)
(* followed here.                                                          *)
(***************************************************************************)

\* One processDocument call: its position (the await it is at), the `control`
\* object it shares with its progress simulation, the simulation itself and
\* the last percentage the simulation reported.
NewAttempt(d, kind) ==
  [doc |-> d, kind |-> kind, pc |-> "extract", accelerate |-> FALSE,
   sim |-> "running", tick |-> 0, failed |-> FALSE, wrote |-> "processing"]

AttemptIds == 1..Len(attempts)

\* getDocumentState(docId)
GetDocumentState(ds, d) == ds[d]

\* The percentages simulateDocumentProgress(docId, 0, 90, 5, control) reports
\* as time passes: "startPercentage + (maxPercentage - startPercentage) *
\* elapsed / duration", capped at maxPercentage.
SimValues == {30, 90}

\* "this.pdfThumbnailViewer?.setDocumentProgress(docId, 0)" at the start of
\* processDocument.
ProgressAtStartKept(p) == p
ProgressAtStart(p) == 0

\* What processDocument and the setters it calls (setDocumentState,
\* setDocumentProgress, setDocumentResult, and #updateDocumentUI with the
\* progress bar and the error panel of the document's container) do to the
\* views of _thumbnails: nothing.  (ViewsUpdated is what a refresh of the
\* thumbnails, update() on each, would do.)
ViewsUpdated(S) == UpdateAll(S, MaxViews)
ViewsAfterProcessing(S) == S

ViewsUntouched ==
  /\ SetViewState(ViewsAfterProcessing(ViewState))
  /\ UNCHANGED <<qvars, dvars, svars, rvars>>

\* processDocument up to its first await: progressCallback(0) (the handlers
\* pass this.progress), state processing, progress 0, simulation started.
ProcessDocument(d, kind) ==
  /\ Len(attempts) < MaxAttempts
  /\ overall' = [num |-> 0, den |-> 1]
  /\ percent' = Progress(percent, overall')
  /\ documentStates' = [documentStates EXCEPT ![d] = "processing"]
  /\ documentProgress' =
       [documentProgress EXCEPT ![d] = ProgressAtStart(documentProgress[d])]
  /\ attempts' = Append(attempts, NewAttempt(d, kind))
  /\ UNCHANGED <<documentResult, progressMap, totalDocs>>
  /\ ViewsUntouched

\* The documents are interchangeable: they are taken in the order of their
\* first use.
Candidates ==
  {d \in Documents : \A e \in 1..(d - 1) : \E a \in AttemptIds : attempts[a].doc = e}

\* The Retry button, which #updateDocumentUI shows only in state error.
OnDocumentContainerRetry(d) ==
  /\ documentStates[d] = "error"
  /\ ProcessDocument(d, "retry")

\* The Extract button of a document container.
OnDocumentContainerExtract(d) ==
  /\ GetDocumentState(documentStates, d) # "processing"
  /\ ProcessDocument(d, "extract")

\* An animation frame of simulateDocumentProgress before the accelerate
\* signal: setDocumentProgress(docId, percentage).
SimulationTick(a) ==
  /\ attempts[a].sim = "running"
  /\ ~attempts[a].accelerate
  /\ \E v \in SimValues :
       /\ v >= attempts[a].tick
       /\ documentProgress' = [documentProgress EXCEPT ![attempts[a].doc] = v]
       /\ attempts' = [attempts EXCEPT ![a].tick = v]
  /\ UNCHANGED <<documentStates, documentResult, xprogress>>
  /\ ViewsUntouched

\* The frame that sees control.accelerate: animateDocumentProgress(docId,
\* maxPercentage, 100, 0.5) is started.
SimulationAccelerates(a) ==
  /\ attempts[a].sim = "running"
  /\ attempts[a].accelerate
  /\ attempts' = [attempts EXCEPT ![a].sim = "accelerating"]
  /\ UNCHANGED <<documentStates, documentProgress, documentResult, xprogress>>
  /\ ViewsUntouched

\* extractPagesFromPdf resolves: setDocumentProgress(docId, 50), then the
\* animation to 0.5 is started.
ExtractResolves(a) ==
  /\ attempts[a].pc = "extract"
  /\ documentProgress' = [documentProgress EXCEPT ![attempts[a].doc] = 50]
  /\ attempts' = [attempts EXCEPT ![a].pc = "animate"]
  /\ UNCHANGED <<documentStates, documentResult, xprogress>>
  /\ ViewsUntouched

\* The last frame of the animation to 0.5: progressCallback(0.5); the
\* request is sent.
AnimationEnds(a) ==
  /\ attempts[a].pc = "animate"
  /\ overall' = [num |-> AnimationTarget("processing"), den |-> 1]
  /\ percent' = Progress(percent, overall')
  /\ attempts' = [attempts EXCEPT ![a].pc = "request"]
  /\ UNCHANGED <<documentStates, documentProgress, documentResult,
                 progressMap, totalDocs>>
  /\ ViewsUntouched

\* The answer is ok and has been parsed: setDocumentProgress(docId, 90),
\* setDocumentResult, control.accelerate = true, await progressSimPromise.
RequestSucceeds(a) ==
  /\ attempts[a].pc = "request"
  /\ documentProgress' = [documentProgress EXCEPT ![attempts[a].doc] = 90]
  /\ documentResult' = [documentResult EXCEPT ![attempts[a].doc] = TRUE]
  /\ attempts' = [attempts EXCEPT ![a].pc = "simulation",
                                  ![a].accelerate = TRUE]
  /\ UNCHANGED <<documentStates, xprogress>>
  /\ ViewsUntouched

\* The catch block: setDocumentState(docId, 'error'), control.accelerate =
\* true, await progressSimPromise.
Catch(a) ==
  /\ documentStates' = [documentStates EXCEPT ![attempts[a].doc] = "error"]
  /\ attempts' = [attempts EXCEPT ![a].pc = "simulation",
                                  ![a].accelerate = TRUE,
                                  ![a].failed = TRUE,
                                  ![a].wrote = "error"]
  /\ UNCHANGED <<documentProgress, documentResult, xprogress>>
  /\ ViewsUntouched

\* extractPagesFromPdf throws.
ExtractFails(a) == attempts[a].pc = "extract" /\ Catch(a)

\* fetch rejects, or the response is not ok, or its body does not parse.
RequestFails(a) == attempts[a].pc = "request" /\ Catch(a)

\* After "await progressSimPromise" the try block goes on to
\* setDocumentState(docId, 'done'); the catch block does not.
MarksDoneAlways(failed) == TRUE
MarksDoneNever(failed) == FALSE
MarksDone(failed) == ~failed

\* The last frame of animateDocumentProgress: setDocumentProgress(docId,
\* 100) and resolve(); processDocument goes on after its await, marks the
\* document done on the success path and starts the final animation.
SimulationEnds(a) ==
  /\ attempts[a].sim = "accelerating"
  /\ documentProgress' = [documentProgress EXCEPT ![attempts[a].doc] = 100]
  /\ IF MarksDone(attempts[a].failed)
     THEN /\ documentStates' =
               [documentStates EXCEPT ![attempts[a].doc] = "done"]
          /\ attempts' = [attempts EXCEPT ![a].sim = "done", ![a].pc = "final",
                                          ![a].wrote = "done"]
     ELSE /\ attempts' = [attempts EXCEPT ![a].sim = "done", ![a].pc = "final"]
          /\ UNCHANGED documentStates
  /\ UNCHANGED <<documentResult, xprogress>>
  /\ ViewsUntouched

\* The last frame of the final animation: progressCallback(1);
\* processDocument returns the result or rethrows the error, which the
\* handler logs.
ProcessDocumentReturns(a) ==
  /\ attempts[a].pc = "final"
  /\ overall' = [num |-> AnimationTarget(attempts[a].wrote), den |-> 1]
  /\ percent' = Progress(percent, overall')
  /\ attempts' = [attempts EXCEPT ![a].pc = "returned"]
  /\ UNCHANGED <<documentStates, documentProgress, documentResult,
                 progressMap, totalDocs>>
  /\ ViewsUntouched

NextProcessing ==
  \/ \E d \in Candidates : OnDocumentContainerRetry(d)
  \/ \E d \in Candidates : OnDocumentContainerExtract(d)
  \/ \E a \in AttemptIds : SimulationTick(a)
  \/ \E a \in AttemptIds : SimulationAccelerates(a)
  \/ \E a \in AttemptIds : ExtractResolves(a)
  \/ \E a \in AttemptIds : ExtractFails(a)
  \/ \E a \in AttemptIds : AnimationEnds(a)
  \/ \E a \in AttemptIds : RequestSucceeds(a)
  \/ \E a \in AttemptIds : RequestFails(a)
  \/ \E a \in AttemptIds : SimulationEnds(a)
  \/ \E a \in AttemptIds : ProcessDocumentReturns(a)

SpecProcessing == InitThumbnail /\ [][NextProcessing]_vars

\* The premise of the liveness of processDocument: extractPagesFromPdf and
\* the request settle one way or the other, and requestAnimationFrame keeps
\* calling the frames of the animations and of the simulation.
FairProcessing ==
  \A a \in 1..MaxAttempts :
    /\ WF_vars(a \in AttemptIds /\ (ExtractResolves(a) \/ ExtractFails(a)))
    /\ WF_vars(a \in AttemptIds /\ AnimationEnds(a))
    /\ WF_vars(a \in AttemptIds /\ (RequestSucceeds(a) \/ RequestFails(a)))
    /\ WF_vars(a \in AttemptIds /\ SimulationAccelerates(a))
    /\ WF_vars(a \in AttemptIds /\ SimulationEnds(a))
    /\ WF_vars(a \in AttemptIds /\ ProcessDocumentReturns(a))

\* The Extract and Retry buttons of one document, pressed whenever the
\* handlers let them start processDocument.
NextRetrying ==
  \/ OnDocumentContainerRetry(1)
  \/ OnDocumentContainerExtract(1)
  \/ \E a \in AttemptIds : SimulationTick(a)
  \/ \E a \in AttemptIds : SimulationAccelerates(a)
  \/ \E a \in AttemptIds : ExtractResolves(a)
  \/ \E a \in AttemptIds : ExtractFails(a)
  \/ \E a \in AttemptIds : AnimationEnds(a)
  \/ \E a \in AttemptIds : RequestSucceeds(a)
  \/ \E a \in AttemptIds : RequestFails(a)
  \/ \E a \in AttemptIds : SimulationEnds(a)
  \/ \E a \in AttemptIds : ProcessDocumentReturns(a)

SpecRetrying == InitThumbnail /\ [][NextRetrying]_vars

SpecProcessingFair ==
  InitThumbnail /\ [][NextRetrying]_vars /\ FairProcessing

\* Document processing next to thumbnail rendering: one processDocument
\* call, started by the first Extract click, while the thumbnails get their
\* pages and are drawn, finished and reset.
NextLifecycles ==
  \/ \E d \in Candidates : attempts = <<>> /\ OnDocumentContainerExtract(d)
  \/ \E a \in AttemptIds : SimulationTick(a)
  \/ \E a \in AttemptIds : SimulationAccelerates(a)
  \/ \E a \in AttemptIds : ExtractResolves(a)
  \/ \E a \in AttemptIds : ExtractFails(a)
  \/ \E a \in AttemptIds : AnimationEnds(a)
  \/ \E a \in AttemptIds : RequestSucceeds(a)
  \/ \E a \in AttemptIds : RequestFails(a)
  \/ \E a \in AttemptIds : SimulationEnds(a)
  \/ \E a \in AttemptIds : ProcessDocumentReturns(a)
  \/ \E v \in Views : Reset(v)
  \/ \E v \in Views : SetPdfPage(v)
  \/ \E v \in Views : Draw(v)
  \/ \E k \in DrawIds : RenderSettles(k, TRUE)

SpecLifecycles == InitThumbnail /\ [][NextLifecycles]_vars

(***************************************************************************)
(* Properties of the ConcurrencyQueue                                      *)
(***************************************************************************)

Resolved(r) == r \in 1..Len(runs) /\ runs[r].resolveCalls >= 1
Started(t) == tasks[t].st # "queued"
Active(t) == tasks[t].st \in {"running", "settled", "recorded"}
AllFinished == \A t \in TaskIds : tasks[t].st = "finished"

\* C1: after addTask* and one run(), the array run() resolves with has one
\* entry per added task and entry i belongs to the i-th added task, in every
\* completion order.
C1_ResultsInSubmissionOrder ==
  Resolved(1) =>
    /\ ResultsLength(results) = Len(tasks)
    /\ \A t \in TaskIds : results[t - 1] # Empty /\ results[t - 1].task = t

\* C1 witness: the run resolved although a later task completed first.
C1_Witness ==
  /\ Resolved(1)
  /\ Len(tasks) >= 2
  /\ recordedOrder # <<>>
  /\ recordedOrder[1] # 1

\* C2: the number of active tasks never exceeds the configured concurrency.
C2_ActiveWithinConcurrency ==
  /\ activeCount <= concurrency
  /\ Cardinality({t \in TaskIds : Active(t)}) <= concurrency

\* C2 witness: every slot is taken while a task is still waiting.
C2_Witness == activeCount = concurrency /\ queue # <<>>

\* C3: a rejected task does not stop the rest: every queued task is still
\* started and finishes, and the run() promise is resolved.
C3_FailureDoesNotStall ==
  \A t \in 1..MaxTasks :
    (t \in TaskIds /\ tasks[t].outcome = "fail")
      ~> (Resolved(1) /\ AllFinished)

\* C3 witness: with one slot, the first task failed and the queue drained.
C3_Witness ==
  /\ concurrency = 1
  /\ Len(tasks) >= 2
  /\ tasks[1].outcome = "fail"
  /\ tasks[2].st = "finished"
  /\ Resolved(1)

\* C4: with failed tasks the run() promise is still resolved once all tasks
\* finished, and the array holds {error: message} exactly at the indices of
\* the failed tasks and each other task's result at its own index.
C4_ErrorEntryAtSubmissionIndex ==
  /\ (runs # <<>> /\ AllFinished) => Resolved(1)
  /\ Resolved(1) =>
       \A t \in TaskIds :
         results[t - 1] = IF tasks[t].outcome = "fail"
                          THEN ErrorEntry(t) ELSE ValueEntry(t)

\* C4 witness: a resolved run with a failed and a successful task.
C4_Witness ==
  /\ Resolved(1)
  /\ \E t, u \in TaskIds : tasks[t].outcome = "fail" /\ tasks[u].outcome = "ok"

\* A step in which resolve() is called for some run() promise.
ResolveStep ==
  \E r \in 1..Len(runs') :
    runs'[r].resolveCalls > (IF r <= Len(runs) THEN runs[r].resolveCalls ELSE 0)

\* C5: resolve() is only called in a state with an empty pending queue and
\* activeCount = 0, in which no started task is unfinished.
C5_ResolveOnlyWhenDrained ==
  [][ResolveStep =>
       /\ queue' = <<>>
       /\ activeCount' = 0
       /\ \A t \in 1..Len(tasks') : ~(tasks'[t].st \in {"running", "settled", "recorded"})]_vars

\* C5 witness: a run() promise resolved after tasks were started.
C5_Witness == \E r \in 1..Len(runs) : Resolved(r) /\ currentIndex >= 2

\* Idle until run() is called, Running until its promise is resolved.
QueueState ==
  IF runs = <<>> THEN "Idle" ELSE IF Resolved(1) THEN "Drained" ELSE "Running"

\* C6: one run() call goes Idle -> Running -> Drained (run() on an empty
\* queue passes through Running within the call): the promise is eventually
\* resolved, resolve() is called once, and nothing is started after Drained.
C6_IdleRunningDrained ==
  /\ [](QueueState = "Running" => <>(QueueState = "Drained"))
  /\ [](runs # <<>> => runs[1].resolveCalls <= 1)
  /\ [][/\ QueueState = "Idle" => QueueState' \in {"Idle", "Running", "Drained"}
        /\ QueueState = "Running" => QueueState' \in {"Running", "Drained"}
        /\ QueueState = "Drained" =>
             QueueState' = "Drained" /\ tasks' = tasks /\ currentIndex' = currentIndex]_vars

\* C6 witness: Drained after every added task ran.
C6_Witness ==
  /\ QueueState = "Drained"
  /\ Len(tasks) >= 2
  /\ currentIndex = Len(tasks)
  /\ AllFinished

(***************************************************************************)
(* Documents and pages                                                      *)
(***************************************************************************)

RECURSIVE TotalPages(_)
TotalPages(docs) ==
  IF docs = <<>> THEN 0 ELSE Len(Head(docs).pages) + TotalPages(Tail(docs))

\* The page ids a list of documents holds (an undefined element is no page).
OwnedIds(docs) ==
  UNION {{docs[d].pages[i].id :
            i \in {j \in 1..Len(docs[d].pages) : docs[d].pages[j] # Undefined}} :
         d \in 1..Len(docs)}

Dropped == lastOp.op = "drop"

\* C7: a drag-and-drop move, with whatever oldIndex/newIndex the drop
\* reports, leaves the number of pages summed over all documents as it was
\* before the move.
C7_PageConservation ==
  Dropped => TotalPages(documentsData) = TotalPages(lastOp.before)

\* C8: after any sequence of moves, deletions, document additions and
\* removals and renumberings, no page id occurs in two documents or twice in
\* one document, and a move leaves every page that was in a document in a
\* document (none is orphaned, none appears from nowhere).
C8_ExclusiveOwnership ==
  /\ \A d \in 1..Len(documentsData), e \in 1..Len(documentsData) :
       \A i \in 1..Len(documentsData[d].pages),
          j \in 1..Len(documentsData[e].pages) :
         (/\ documentsData[d].pages[i] # Undefined
          /\ documentsData[d].pages[i].id = documentsData[e].pages[j].id)
         => (d = e /\ i = j)
  /\ Dropped => OwnedIds(documentsData) = OwnedIds(lastOp.before)

\* A page has been deleted, then a page has moved to another document.
C8_Witness ==
  /\ Dropped
  /\ lastOp.from # lastOp.to
  /\ ops >= 2
  /\ documentsData # lastOp.before
  /\ OwnedIds(lastOp.before) # {}

\* C9: moving the page at index oldIndex of document A to index newIndex of
\* another document B leaves A with one page fewer and B with one page more,
\* puts the moved page at position newIndex of B, and keeps the order of the
\* other pages of A and of B.
C9_MoveBetweenDocuments ==
  (Dropped /\ lastOp.from # lastOp.to) =>
    LET f == DocIndex(lastOp.before, lastOp.from)
        t == DocIndex(lastOp.before, lastOp.to)
        A == lastOp.before[f].pages
        B == lastOp.before[t].pages
        A2 == documentsData[f].pages
        B2 == documentsData[t].pages
        o == lastOp.oldIndex
        n == lastOp.newIndex
    IN  (o < Len(A) /\ n <= Len(B)) =>
          /\ Len(A2) = Len(A) - 1
          /\ Len(B2) = Len(B) + 1
          /\ B2[n + 1] = A[o + 1]
          /\ \A i \in 1..Len(A2) : A2[i] = IF i <= o THEN A[i] ELSE A[i + 1]
          /\ \A i \in 1..Len(B) : B[i] = IF i <= n THEN B2[i] ELSE B2[i + 1]

\* The scenario of the claim: the last page of a 3-page document has been
\* moved to the front of a 2-page document.
C9_Witness ==
  /\ Dropped
  /\ lastOp.from # lastOp.to
  /\ LET f == DocIndex(lastOp.before, lastOp.from)
         t == DocIndex(lastOp.before, lastOp.to)
     IN  /\ Len(lastOp.before[f].pages) = 3
         /\ Len(lastOp.before[t].pages) = 2
         /\ lastOp.oldIndex = 2
         /\ lastOp.newIndex = 0
         /\ Len(documentsData[f].pages) = 2
         /\ Len(documentsData[t].pages) = 3
         /\ documentsData[t].pages[1].id = PageId(0, 2)

(***************************************************************************)
(* Thumbnail views                                                          *)
(***************************************************************************)

\* C10 as stated: draw() on a view whose renderingState is not INITIAL
\* returns a promise that is rejected.
C10_DrawNotInitialRejects ==
  \A k \in DrawIds :
    draws[k].before # INITIAL => draws[k].status = "rejected"

\* C10, amended: draw() on a view whose renderingState is not INITIAL does
\* not render and does not reject: the promise it returns is fulfilled (with
\* undefined), no render task is created and renderingState stays as it was.
C10_DrawNotInitialIgnored ==
  \A k \in DrawIds :
    draws[k].before # INITIAL =>
      /\ draws[k].status = "fulfilled"
      /\ draws[k].rt = "none"
      /\ draws[k].after = draws[k].before

\* draw() has been called on a view that was RUNNING, PAUSED or FINISHED.
C10_Witness ==
  \E k \in DrawIds : draws[k].before \in {RUNNING, PAUSED, FINISHED}

\* C11: draw() called while the view is RUNNING does not start a second
\* render task: the view's renderTask and renderingState are after the call
\* exactly what they were before it.
C11_DrawWhileRunningIgnored ==
  \A k \in DrawIds :
    draws[k].before = RUNNING =>
      /\ draws[k].rt = "none"
      /\ draws[k].taskAfter = draws[k].taskBefore
      /\ draws[k].after = RUNNING

\* draw() has been called on a RUNNING view whose render task was in flight.
C11_Witness ==
  \E k \in DrawIds :
    /\ draws[k].before = RUNNING
    /\ draws[k].taskBefore # 0
    /\ draws[draws[k].taskBefore].view = draws[k].view

\* The render tasks of view v that have not settled.
ActiveTasks(v) ==
  {k \in DrawIds : draws[k].view = v /\ draws[k].rt \in {"rendering", "atContinue"}}

\* The callbacks of render task k ran when k was no longer the view's
\* renderTask.
Stale(k) == draws[k].fin.outcome # "none" /\ draws[k].fin.current # k

\* C12: a view has at most one active render task at a time, and the
\* settling of a stale render task (one that reset() has replaced) changes
\* neither the view's renderingState nor its current renderTask nor its image.
C12_OneTaskStaleIgnored ==
  /\ \A v \in Views : Cardinality(ActiveTasks(v)) <= 1
  /\ \A k \in DrawIds :
       Stale(k) =>
         /\ draws[k].fin.stateAfter = draws[k].fin.stateBefore
         /\ draws[k].fin.imageAfter = draws[k].fin.imageBefore
         /\ draws[k].fin.taskAfter = draws[k].fin.current

\* After reset() and a new draw(), the earlier render task has settled while
\* the new one was the view's renderTask.
C12_Witness ==
  \E k \in DrawIds :
    /\ Stale(k)
    /\ draws[k].fin.current > k
    /\ draws[draws[k].fin.current].view = draws[k].view
    /\ draws[k].fin.stateBefore = RUNNING

(***************************************************************************)
(* The scheduler                                                            *)
(***************************************************************************)

RunningViews == {v \in Views : renderingState[v] = RUNNING}

\* C13: at any time at most one view in the whole viewer is RUNNING, under
\* every interleaving of scheduler passes, scroll events, rotate-thumbnail
\* actions and render completions.
C13_AtMostOneRunning == Cardinality(RunningViews) <= 1

Stopped == lastPass.called /\ ~lastPass.returned /\ Idle

\* The views the scheduler may still come to with the window where it is:
\* those in the window and those beyond it in the scroll-ahead direction.
Reachable ==
  IF GetScrollAhead(visible, scrollDown)
  THEN {v \in Views : v >= visible.first}
  ELSE {v \in Views : v <= visible.last}

C16_CancellationAbsorbed ==
  \A k \in DrawIds :
    draws[k].fin.outcome = "cancelled" =>
      /\ draws[k].status = "fulfilled"
      /\ draws[k].fin.stateAfter = draws[k].fin.stateBefore
      /\ draws[k].fin.imageAfter = draws[k].fin.imageBefore

\* A render task that reset() cancelled has ended, on a view that was
\* INITIAL and on one that was RUNNING again.
C16_Witness ==
  /\ \E k \in DrawIds :
       draws[k].fin.outcome = "cancelled" /\ draws[k].fin.stateBefore = INITIAL
  /\ \E k \in DrawIds :
       draws[k].fin.outcome = "cancelled" /\ draws[k].fin.stateBefore = RUNNING

\* C17: when the current render task of a view fails with an error other than
\* cancellation, the view is marked FINISHED and the promise draw() returned
\* is rejected with the error.
C17_FailureFinishesAndRethrows ==
  \A k \in DrawIds :
    (draws[k].fin.outcome = "failed" /\ draws[k].fin.current = k) =>
      /\ draws[k].fin.stateAfter = FINISHED
      /\ draws[k].status = "rejected"

\* The render task of a RUNNING view has failed.
C17_Witness ==
  \E k \in DrawIds :
    /\ draws[k].fin.outcome = "failed"
    /\ draws[k].fin.current = k
    /\ draws[k].fin.stateBefore = RUNNING
    /\ renderingState[draws[k].view] = FINISHED

\* A step in which reset() ran on view v, on its own or from setPdfPage().
ResetStep(v) == Reset(v) \/ SetPdfPage(v)

\* C18: from any renderingState, reset() (also through update() or
\* setPdfPage()) leaves the view INITIAL with no render task, no resume
\* continuation and no image, and has cancelled the render task that was in
\* flight.
C18_ResetLeavesInitial ==
  [][\A v \in Views :
       ResetStep(v) =>
         /\ renderingState'[v] = INITIAL
         /\ renderTask'[v] = 0
         /\ resume'[v] = 0
         /\ ~image'[v]
         /\ renderTask[v] # 0 =>
              draws'[renderTask[v]].rt \notin {"rendering", "atContinue"}]_vars

\* reset() has run on a view whose render task was in flight (the task is
\* cancelled), and a FINISHED view with an image has been reset.
C18_Witness ==
  /\ \E k \in DrawIds :
       /\ draws[k].rt = "cancelled"
       /\ renderingState[draws[k].view] = INITIAL
       /\ renderTask[draws[k].view] = 0
       /\ resume[draws[k].view] = 0
  /\ \E k \in DrawIds :
       /\ draws[k].fin.outcome = "succeeded"
       /\ renderingState[draws[k].view] = INITIAL
       /\ ~image[draws[k].view]

(***************************************************************************)
(* Bulk extraction                                                         *)
(***************************************************************************)

\* The documents that report state processing.
ReportProcessing == {d \in Documents : documentStates[d] = "processing"}

\* C19: in a bulk extraction of more documents than the concurrency limit,
\* at no instant do more than 3 documents report state processing.
C19_AtMostThreeProcessing == Cardinality(ReportProcessing) <= ExtractConcurrency

\* The aggregate progress has reached 100%.
OverallComplete == totalDocs > 0 /\ overall.num = 100 * overall.den

\* C20: in a bulk extraction the aggregate progress (the mean of the
\* per-document progress values of the batch) reaches 100% only after every
\* document of the batch has reached state done or state error.
C20_CompleteOnlyAfterAllSettled ==
  OverallComplete =>
    \A d \in 1..totalDocs : documentStates[d] \in {"done", "error"}

\* A batch of more documents than the concurrency limit has reached 100%,
\* with a document done and a document in error.
C20_Witness ==
  /\ OverallComplete
  /\ totalDocs > ExtractConcurrency
  /\ \E d \in 1..totalDocs : documentStates[d] = "done"
  /\ \E d \in 1..totalDocs : documentStates[d] = "error"

(***************************************************************************)
(* The processing state of a document                                      *)
(***************************************************************************)

\* C21: while a document's state is processing, its progress value never
\* decreases from one update to the next, whatever the interleaving of the
\* simulation's ticks and the setDocumentProgress calls of processDocument.
C21_ProgressNeverDecreases ==
  [][\A d \in Documents :
       (documentStates[d] = "processing" /\ documentStates'[d] = "processing")
         => documentProgress'[d] >= documentProgress[d]]_vars

\* C22: in every reachable state a document's result and json are populated
\* only if the document's state is done.
C22_ResultOnlyWhenDone ==
  \A d \in Documents : documentResult[d] => documentStates[d] = "done"

\* The attempt a has just failed in this step.
Fails(a) == ~attempts[a].failed /\ attempts'[a].failed

\* C23: if the extraction of a document fails, the document's state becomes
\* error, the failed attempt never sets it to done, and the failure changes
\* the state of no other document.
C23_FailureIsErrorForThatDocument ==
  /\ [](\A a \in AttemptIds : attempts[a].failed => attempts[a].wrote = "error")
  /\ [][\A a \in AttemptIds :
          Fails(a) =>
            /\ documentStates'[attempts[a].doc] = "error"
            /\ \A e \in Documents \ {attempts[a].doc} :
                 documentStates'[e] = documentStates[e]]_vars

\* An attempt has failed and has run to its end, while another document was
\* processing.
C23_Witness ==
  \E a \in AttemptIds :
    /\ attempts[a].failed
    /\ attempts[a].pc = "returned"
    /\ documentStates[attempts[a].doc] = "error"
    /\ \E e \in Documents \ {attempts[a].doc} : documentStates[e] = "processing"

\* The retry button has just started an attempt in this step.
Retried ==
  /\ Len(attempts') = Len(attempts) + 1
  /\ attempts'[Len(attempts')].kind = "retry"

\* C24: the retry action of a document calls processDocument on it, which
\* re-enters state processing with progress reset to 0 before the request is
\* sent.
C24_RetryReentersProcessing ==
  [][Retried =>
       LET a == attempts'[Len(attempts')]
       IN  /\ documentStates[a.doc] = "error"
           /\ documentStates'[a.doc] = "processing"
           /\ documentProgress'[a.doc] = 0
           /\ a.pc = "extract"]_vars

\* A document whose progress bar had moved has failed and is being retried,
\* the request of the retry not yet sent.
C24_Witness ==
  \E a \in AttemptIds : \E b \in AttemptIds :
    /\ a < b
    /\ attempts[a].doc = attempts[b].doc
    /\ attempts[a].failed /\ attempts[a].tick > 0
    /\ attempts[b].kind = "retry"
    /\ attempts[b].pc \in {"extract", "animate"}
    /\ documentStates[attempts[b].doc] = "processing"

(***************************************************************************)
(* renumberDocsAndPages                                                    *)
(***************************************************************************)

\* renumberDocsAndPages() called in the current state.
RenumberedOnce == RenumberDocsAndPages(documentsData, thumbnails)

\* C25: renumberDocsAndPages is idempotent: called twice in a row it leaves
\* every page with the pageNumber and id, and every thumbnail with the id,
\* that one call leaves.
C25_RenumberIdempotent ==
  LET once == RenumberedOnce
      twice == RenumberDocsAndPages(once.docs, once.thumbs)
  IN  /\ twice.docs = once.docs
      /\ twice.thumbs = once.thumbs

\* Pages have been moved so that a call changes page ids, page numbers and
\* thumbnail ids, with an empty document among the documents.
C25_Witness ==
  /\ thumbnails # <<>>
  /\ ~RenumberedOnce.threw
  /\ RenumberedOnce.thumbs # thumbnails
  /\ \E d \in 1..Len(documentsData) : documentsData[d].pages = <<>>
  /\ \E d \in 1..Len(documentsData) : \E i \in 1..Len(documentsData[d].pages) :
       /\ RenumberedOnce.docs[d].pages[i].id # documentsData[d].pages[i].id
       /\ RenumberedOnce.docs[d].pages[i].pageNumber
            # documentsData[d].pages[i].pageNumber

\* C26: after renumberDocsAndPages the pageNumbers read by flattening the
\* documents' page lists in container order are exactly 1, 2, ..., N, for
\* any arrangement of the pages across the documents, empty documents
\* included.
C26_RenumberIsOneToN ==
  LET once == RenumberedOnce
      flat == Flatten(once.docs)
  IN  ~once.threw =>
        /\ Len(flat) = Len(Flatten(documentsData))
        /\ \A i \in 1..Len(flat) : flat[i].pageNumber = i

\* The documents hold pages out of order around an empty document that is
\* neither the first nor the last.
C26_Witness ==
  /\ ~RenumberedOnce.threw
  /\ \E d \in 2..(Len(documentsData) - 1) :
       /\ documentsData[d].pages = <<>>
       /\ documentsData[d - 1].pages # <<>>
       /\ documentsData[d + 1].pages # <<>>
  /\ \E i \in 1..Len(Flatten(documentsData)) :
       Flatten(documentsData)[i].pageNumber # i

(***************************************************************************)
(* Deleting pages                                                          *)
(***************************************************************************)

SchedulingStep == Run \/ \E t \in TaskIds : Finally(t)

\* C28: while run() is in progress no free slot is left idle while a task is
\* pending: after every scheduling step either the pending queue is empty or
\* activeCount equals concurrency.
C28_GreedyAdmission ==
  [][SchedulingStep => (queue' = <<>> \/ activeCount' = concurrency)]_vars

\* A finished task's slot has been given to a task that was pending, and a
\* task is still pending with every slot taken.
C28_Witness ==
  /\ \E t \in TaskIds : tasks[t].st = "finished"
  /\ \E t \in TaskIds : tasks[t].st = "running" /\ tasks[t].taskIndex >= concurrency
  /\ queue # <<>>
  /\ activeCount = concurrency

\* C29: tasks are started in the order they were added: the (i+1)-th added
\* task is never started before the i-th.
C29_StartedInSubmissionOrder ==
  /\ \A t \in TaskIds : \A u \in TaskIds :
       (t < u /\ Started(u)) => Started(t)
  /\ \A i \in 1..Len(queue) : \A j \in 1..Len(queue) :
       i < j => queue[i] < queue[j]

\* With one slot the first task is finished, the second runs and the third
\* waits its turn.
C29_Witness ==
  /\ concurrency = 1
  /\ Len(tasks) >= 3
  /\ tasks[1].st = "finished"
  /\ tasks[2].st = "running"
  /\ ~Started(3)

\* The tasks whose finally callback has run.
Reclaimed == {t \in TaskIds : tasks[t].st = "finished"}

\* C30: a started task keeps its slot until it settles: activeCount is
\* decremented once per started task, when its callbacks run after its
\* success or failure, so activeCount is the number of started tasks minus
\* the number of tasks that settled and ran their callbacks.
C30_ActiveIsStartedMinusSettled ==
  activeCount =
    Cardinality({t \in TaskIds : Started(t)}) - Cardinality(Reclaimed)

\* A failed and a successful task have given their slots back while another
\* task is running.
C30_Witness ==
  /\ \E t \in Reclaimed : tasks[t].outcome = "fail"
  /\ \E t \in Reclaimed : tasks[t].outcome = "ok"
  /\ activeCount >= 1

(***************************************************************************)
(* C31  A page's rotation is always one of 0, 90, 180, 270, and each        *)
(* rotate-thumbnail action sets it to (previous rotation + 90) mod 360 (so  *)
(* that four of them restore the original rotation).                        *)
(***************************************************************************)
C31_RotateAddsQuarterTurn ==
  /\ [](\A v \in Views : pageRotation[v] \in Rotations)
  /\ [][\A v \in Views :
          OnRotateThumbnail(v) =>
            pageRotation'[v] = (pageRotation[v] + 90) % 360]_vars

(***************************************************************************)
(* C32  A drag-and-drop move keeps the thumbnail views: _onThumbnailDrop    *)
(* leaves the views in _thumbnails, and each view's renderingState, pdfPage *)
(* and image, unchanged.                                                    *)
(***************************************************************************)
DropStep == ops' = ops + 1 /\ lastOp'.op = "drop"

C32_DropKeepsViews ==
  [][DropStep =>
       /\ thumbnails' = thumbnails
       /\ renderingState' = renderingState
       /\ pdfPage' = pdfPage
       /\ image' = image]_vars

\* C32, as the code has it: the drop leaves the views in _thumbnails and each
\* view's pdfPage and image unchanged; the scheduler pass it ends with may
\* start or resume the rendering of the one view it picks (INITIAL or PAUSED
\* to RUNNING), and no other renderingState changes.
C32_DropKeepsViewsButRenders ==
  [][DropStep =>
       /\ thumbnails' = thumbnails
       /\ pdfPage' = pdfPage
       /\ image' = image
       /\ \A v \in Views :
            renderingState'[v] # renderingState[v] =>
              /\ v = lastPass'.picked
              /\ renderingState[v] \in {INITIAL, PAUSED}
              /\ renderingState'[v] = RUNNING]_vars

\* A drop between documents was made while a view was FINISHED with its
\* image, and the pass that followed started another view.
C32_Witness ==
  /\ lastOp.op = "drop" /\ lastOp.from # lastOp.to
  /\ \E v \in Views : renderingState[v] = FINISHED /\ image[v]
  /\ \E v \in Views : renderingState[v] = RUNNING /\ lastPass.picked = v

(***************************************************************************)
(* C33  The extraction lifecycle and the render lifecycle are independent:  *)
(* no step of processDocument (with the setDocumentState, -Progress and     *)
(* -Result calls it makes) changes a view's renderingState, and no draw,    *)
(* reset or cancellation of a thumbnail changes a document's state,         *)
(* progress or result.                                                      *)
(***************************************************************************)
DocumentFields == <<documentStates, documentProgress, documentResult>>

C33_LifecyclesIndependent ==
  [][/\ (attempts' # attempts \/ DocumentFields' # DocumentFields)
          => renderingState' = renderingState
     /\ tvars' # tvars
          => (DocumentFields' = DocumentFields /\ attempts' = attempts)]_vars

\* A document has been processed to done while a thumbnail was rendered and
\* another one drawn and reset.
C33_Witness ==
  /\ \E d \in Documents : documentStates[d] = "done" /\ documentResult[d]
  /\ \E v \in Views : renderingState[v] = FINISHED /\ image[v]
  /\ \E k \in DrawIds : draws[k].rt = "cancelled"

(***************************************************************************)
(* C34  No document is processed by two overlapping processDocument calls:  *)
(* of two calls for the same document, one has returned before the other    *)
(* starts, whatever the order of extract and retry clicks.                  *)
(***************************************************************************)
C34_NoOverlappingCalls ==
  \A a \in AttemptIds, b \in AttemptIds :
    (a < b /\ attempts[a].doc = attempts[b].doc) =>
      attempts[a].pc = "returned"

PageIds == {Flatten(documentsData)[i].id : i \in 1..Len(Flatten(documentsData))}

C36_ThumbnailsMatchPages ==
  /\ ThumbIds = PageIds
  /\ Len(thumbnails) = Len(Flatten(documentsData))
  /\ Cardinality(ThumbIds) = Len(thumbnails)

(***************************************************************************)
(* C37  Every task is started at most once and a finished task is never     *)
(* run again, also with a second run() call or an addTask during a run;     *)
(* and a task that waits in the queue while at least one task is active     *)
(* (as one added during a run does) is eventually started, and its result   *)
(* lands at its submission index.                                           *)
(***************************************************************************)
StageOf(st) ==
  CASE st = "queued" -> 0
    [] st = "running" -> 1
    [] st = "settled" -> 2
    [] st = "recorded" -> 3
    [] st = "finished" -> 4

WaitsWhileActive(t) ==
  t \in TaskIds /\ tasks[t].st = "queued" /\ activeCount > 0

Landed(t) ==
  t \in TaskIds /\ results[t - 1] \in {ValueEntry(t), ErrorEntry(t)}

C37_StartedOnceAndLateTasksRun ==
  /\ [][\A t \in TaskIds :
          /\ StageOf(tasks'[t].st) >= StageOf(tasks[t].st)
          /\ Started(t) => /\ tasks'[t].taskIndex = tasks[t].taskIndex
                           /\ tasks'[t].run = tasks[t].run]_vars
  /\ \A t \in 1..MaxTasks : WaitsWhileActive(t) ~> Landed(t)

\* A task added after the only run() call had started tasks has its result
\* at its submission index.
C37_Witness ==
  /\ Len(runs) = 1
  /\ \E t \in TaskIds :
       /\ t > runs[1].addedAtCall
       /\ runs[1].addedAtCall > 0
       /\ Landed(t)
       /\ tasks[t].st = "finished"

(***************************************************************************)
(* C38  A document in state processing eventually is in state done or      *)
(* error (it is never left in processing), when the page extraction and    *)
(* the request of every processDocument call settle and the animation      *)
(* frames keep firing.                                                     *)
(***************************************************************************)
C38_ProcessingEnds ==
  /\ [][\A d \in Documents :
          (documentStates[d] = "processing" /\ documentStates'[d] # "processing")
            => documentStates'[d] \in {"done", "error"}]_vars
  /\ \A d \in Documents : []<>(documentStates[d] # "processing")

\* A document whose first call failed and whose retry succeeded: it has been
\* in processing twice, and both calls have returned.
C38_Witness ==
  \E a, b \in AttemptIds :
    /\ a < b
    /\ attempts[a].doc = attempts[b].doc
    /\ attempts[a].pc = "returned" /\ attempts[a].wrote = "error"
    /\ attempts[b].pc = "returned" /\ attempts[b].wrote = "done"
    /\ documentStates[attempts[b].doc] = "done"

(***************************************************************************)
(* C39  In every state of a thumbnail view, a render task that is set      *)
(* (renderTask non-null) implies renderingState RUNNING or PAUSED, and       *)
(* renderingState PAUSED implies that a resume continuation is stored;      *)
(* when that continuation is called (the paused render task goes on) the    *)
(* state is RUNNING again.                                                  *)
(***************************************************************************)
Continued(k) ==
  k \in DrawIds /\ draws[k].rt = "atContinue" /\ draws'[k].rt = "rendering"

C39_TaskAndPauseInvariants ==
  /\ [](\A v \in Views :
          /\ renderTask[v] # 0 => renderingState[v] \in {RUNNING, PAUSED}
          /\ renderingState[v] = PAUSED => resume[v] # 0)
  /\ [][\A k \in 1..MaxDraws :
          Continued(k) => /\ renderingState[draws[k].view] = PAUSED
                          /\ resume[draws[k].view] = k
                          /\ renderingState'[draws[k].view] = RUNNING]_vars

\* C39 with its second part as it holds: PAUSED with a render task set
\* implies a stored continuation (cancelRendering() on its own clears the
\* task and the continuation and leaves renderingState as it is).
C39_TaskAndPauseInvariantsWithTask ==
  /\ [](\A v \in Views :
          /\ renderTask[v] # 0 => renderingState[v] \in {RUNNING, PAUSED}
          /\ (renderingState[v] = PAUSED /\ renderTask[v] # 0) => resume[v] # 0)
  /\ [][\A k \in 1..MaxDraws :
          Continued(k) => /\ renderingState[draws[k].view] = PAUSED
                          /\ resume[draws[k].view] = k
                          /\ renderingState'[draws[k].view] = RUNNING]_vars

\* A view that was paused and resumed renders again (its stored continuation
\* is that of its render task), while another view was paused when
\* cancelRendering() was called on it.
C39_Witness ==
  \E v \in Views :
    /\ renderingState[v] = RUNNING
    /\ renderTask[v] # 0
    /\ resume[v] = renderTask[v]
    /\ draws[renderTask[v]].rt = "rendering"
    /\ \E u \in Views :
         /\ renderingState[u] = PAUSED
         /\ renderTask[u] = 0
         /\ \E k \in DrawIds : draws[k].view = u /\ draws[k].rt = "cancelled"

(***************************************************************************)
(* C40  The displayed overall progress, loadingBar.percent as progress()   *)
(* sets it, never decreases whatever the order of the progress callbacks:  *)
(* a report below the bar's value leaves the bar as it is, and the only    *)
(* decrease is the reset from 100 to 0 when a new process reports 0.       *)
(***************************************************************************)
Reported == Round(overall')

C40_ProgressNeverDecreases ==
  [][/\ percent' < percent =>
          (percent = 100 /\ percent' = 0 /\ Reported = 0 /\ attempts' # attempts)
     /\ (overall' # overall /\ Reported < percent
           /\ ~(Reported = 0 /\ percent = 100)) => percent' = percent]_vars

\* A second call on a document was started while the first was still
\* animating: its report of 50 came in on a bar at 100 and was ignored; or
\* the bar was reset by a new call after a finished one.
C40_Witness ==
  /\ percent = 100
  /\ Round(overall) = 50
  /\ \E a, b \in AttemptIds : a < b /\ attempts[b].pc = "request"

====
